---- MODULE Spec2Model ----
(***************************************************************************)
(* A model of MiraViewer's ingestion pipeline (backend/export_dicom.py).   *)
(*                                                                         *)
(* Text is modelled as a sequence of one-character strings, so that        *)
(* upper-casing, substring search, formatting and sanitisation are         *)
(* computed the way the Python code computes them.  An optional value      *)
(* (Python's None) is the empty tuple, a present value v is <<v>>.         *)
(*                                                                         *)
(* Several specifications share the module:                                *)
(*   Spec          a run of export_all_dicoms against one catalog          *)
(*   SpecClassify  parse_plane / parse_weight / parse_sequence_type        *)
(*   SpecPlan      the output path planning of process_dicom_file          *)
(*   SpecSanitize  sanitize_filename                                       *)
(*   SpecRender    the grayscale normalisation of dicom_to_image           *)
(*   SpecExtract   safe_get / extract_metadata on one dataset              *)
(***************************************************************************)
EXTENDS Integers, Sequences, FiniteSets, TLC

VARIABLES
    \* ---- export_all_dicoms / process_dicom_file ----
    opts,       \* scan_all_files, group_by_top_level_folder
    pc,         \* where the run stands: "loop", a step of one file, "done", "aborted"
    remaining,  \* entries the inputs / rglob have still to yield
    walked,     \* history: how often each entry was yielded
    cur,        \* the file being handled: source path and study folder label
    ds,         \* the dataset pydicom.dcmread returned for cur
    metadata,   \* the metadata dict of cur
    img_path,   \* the planned image path of cur
    rendered,   \* what dicom_to_image returned for cur
    stats,      \* the run statistics dict
    db,         \* rows of table dicom_images
    nextId,     \* next value of the AUTOINCREMENT key of dicom_images
    disk,       \* exported raster files: png path and the source it was rendered from
    conn,       \* the catalog connection: "open" / "closed"
    lastOk,     \* history: source path -> metadata of its last successful ingestion
    \* ---- classification of a series description ----
    desc, cphase, plane, weight, sequence_type,
    \* ---- path planning ----
    planIn, pphase, study_dir, series_dir, img_filename, output_path,
    \* ---- sanitize_filename ----
    san_name, sphase, sanitized,
    \* ---- dicom_to_image, grayscale branch ----
    pixel_array, photometric, use_16bit, rphase, out_array,
    \* ---- extract_metadata ----
    tags, ephase, extracted,
    \* ---- the query service (main.py) ----
    dicom_images,    \* the rows of table dicom_images in rowid order, as the service reads them
    image_files,     \* the exported image files that exist
    panel_settings,  \* the rows of table panel_settings
    request,         \* the request handled last
    response,        \* its response: status and body
    posted           \* history: the (combo_id, date_iso) pairs of the posts made

runVars == <<opts, pc, remaining, walked, cur, ds, metadata, img_path, rendered, stats,
             db, nextId, disk, conn, lastOk>>
classVars == <<desc, cphase, plane, weight, sequence_type>>
planVars == <<planIn, pphase, study_dir, series_dir, img_filename, output_path>>
sanVars == <<san_name, sphase, sanitized>>
renderVars == <<pixel_array, photometric, use_16bit, rphase, out_array>>
extractVars == <<tags, ephase, extracted>>
serviceVars == <<dicom_images, image_files, panel_settings, request, response, posted>>
\* The variables of the specifications of single functions and of the service.
funVars == <<classVars, planVars, sanVars, renderVars, extractVars, serviceVars>>
\* The variables of the exporter.
exportVars == <<runVars, classVars, planVars, sanVars, renderVars, extractVars>>
vars == <<runVars, funVars>>

----------------------------------------------------------------------------
(* Optional values and text                                                *)

None == <<>>
Some(v) == <<v>>
Val(o) == o[1]

\* Python truthiness of an optional text: None and "" are falsy.
TruthyStr(o) == o # None /\ Val(o) # <<>>

\* Python truthiness of an optional integer: None and 0 are falsy.
TruthyInt(o) == o # None /\ Val(o) # 0

LowerChars == <<"a","b","c","d","e","f","g","h","i","j","k","l","m",
                "n","o","p","q","r","s","t","u","v","w","x","y","z">>
UpperChars == <<"A","B","C","D","E","F","G","H","I","J","K","L","M",
                "N","O","P","Q","R","S","T","U","V","W","X","Y","Z">>

UpperChar(c) ==
    IF \E i \in 1..Len(LowerChars) : LowerChars[i] = c
    THEN UpperChars[CHOOSE i \in 1..Len(LowerChars) : LowerChars[i] = c]
    ELSE c

\* str.upper()
Upper(s) == [i \in 1..Len(s) |-> UpperChar(s[i])]

\* `p in s`
Contains(s, p) ==
    \E i \in 1..(Len(s) - Len(p) + 1) : SubSeq(s, i, i + Len(p) - 1) = p

\* s.startswith(p)
StartsWith(s, p) == Len(p) <= Len(s) /\ SubSeq(s, 1, Len(p)) = p

\* s.endswith(p)
EndsWith(s, p) == Len(p) <= Len(s) /\ SubSeq(s, Len(s) - Len(p) + 1, Len(s)) = p

----------------------------------------------------------------------------
(* parse_plane, parse_weight, parse_sequence_type                          *)

parse_plane(description) ==
    IF ~TruthyStr(description) THEN None
    ELSE LET u == Upper(Val(description)) IN
         IF \/ Contains(u, <<" ","A","X"," ">>)
            \/ StartsWith(u, <<"A","X"," ">>)
            \/ Contains(u, <<"_","A","X","_">>)
            \/ Contains(u, <<"A","X","I","A","L">>)
         THEN Some("Axial")
         ELSE IF \/ Contains(u, <<" ","C","O","R"," ">>)
                 \/ StartsWith(u, <<"C","O","R"," ">>)
                 \/ Contains(u, <<"_","C","O","R","_">>)
                 \/ Contains(u, <<"C","O","R","O","N","A","L">>)
         THEN Some("Coronal")
         ELSE IF \/ Contains(u, <<" ","S","A","G"," ">>)
                 \/ StartsWith(u, <<"S","A","G"," ">>)
                 \/ Contains(u, <<"_","S","A","G","_">>)
                 \/ Contains(u, <<"S","A","G","I","T","T","A","L">>)
         THEN Some("Sagittal")
         ELSE None

parse_weight(description) ==
    IF ~TruthyStr(description) THEN None
    ELSE LET u == Upper(Val(description)) IN
         IF \/ Contains(u, <<"T","1","_">>)
            \/ Contains(u, <<"T","1"," ">>)
            \/ Contains(u, <<"_","T","1">>)
            \/ EndsWith(u, <<"T","1">>)
         THEN Some("T1")
         ELSE IF \/ Contains(u, <<"T","2","_">>)
                 \/ Contains(u, <<"T","2"," ">>)
                 \/ Contains(u, <<"_","T","2">>)
                 \/ EndsWith(u, <<"T","2">>)
         THEN Some("T2")
         ELSE None

\* The list `sequences` of parse_sequence_type: (pattern, name) in order.
sequences ==
    << <<<<"F","L","A","I","R">>, "FLAIR">>,
       <<<<"S","S","F","S","E">>, "SSFSE">>,
       <<<<"S","W","I">>, "SWI">>,
       <<<<"S","W","A","N">>, "SWAN">>,
       <<<<"D","W","I">>, "DWI">>,
       <<<<"D","T","I">>, "DTI">>,
       <<<<"A","S","L">>, "ASL">>,
       <<<<"A","D","C">>, "ADC">>,
       <<<<"G","R","E">>, "GRE">>,
       <<<<"S","E">>, "SE">>,
       <<<<"L","O","C">>, "Localizer">>,
       <<<<"L","O","C","A","L","I","Z","E","R">>, "Localizer">> >>

\* The same list with SE moved to the front (a plausible reordering slip).
sequencesSEFirst ==
    <<sequences[10]>> \o SubSeq(sequences, 1, 9) \o SubSeq(sequences, 11, 12)

RECURSIVE FirstMatch(_, _, _)
\* for pattern, name in seqs[i..]: if pattern in u: return name
FirstMatch(seqs, u, i) ==
    IF i > Len(seqs) THEN None
    ELSE IF Contains(u, seqs[i][1]) THEN Some(seqs[i][2])
    ELSE FirstMatch(seqs, u, i + 1)

parse_sequence_type_SEFirst(description) ==
    IF ~TruthyStr(description) THEN None
    ELSE FirstMatch(sequencesSEFirst, Upper(Val(description)), 1)

parse_sequence_type(description) ==
    IF ~TruthyStr(description) THEN None
    ELSE FirstMatch(sequences, Upper(Val(description)), 1)

----------------------------------------------------------------------------
(* sanitize_filename and Python's number formatting                        *)

\* The characters sanitize_filename replaces by "_".
BadChars == {"/", "\\", ":", "*", "?", "\"", "<", ">", "|"}

\* Characters str.strip() removes (those the model's texts can hold).
Whitespace == {" ", "\t", "\n"}

\* The length sanitize_filename truncates to.
MaxNameLen == 50

RECURSIVE LStrip(_)
LStrip(s) == IF s # <<>> /\ Head(s) \in Whitespace THEN LStrip(Tail(s)) ELSE s

RECURSIVE RStrip(_)
RStrip(s) ==
    IF s # <<>> /\ s[Len(s)] \in Whitespace THEN RStrip(SubSeq(s, 1, Len(s) - 1)) ELSE s

\* str.strip()
Strip(s) == RStrip(LStrip(s))

\* s[:n]
Prefix(s, n) == SubSeq(s, 1, IF Len(s) < n THEN Len(s) ELSE n)

\* The chain of name.replace(char, '_') calls.
ReplaceBad(s) == [i \in 1..Len(s) |-> IF s[i] \in BadChars THEN "_" ELSE s[i]]

\* A sanitizer that truncates before it strips.
sanitize_filename_TruncFirst(nm) ==
    IF ~TruthyStr(nm) THEN <<"u","n","k","n","o","w","n">>
    ELSE Strip(Prefix(ReplaceBad(Val(nm)), MaxNameLen))

sanitize_filename(name) ==
    IF ~TruthyStr(name) THEN <<"u","n","k","n","o","w","n">>
    ELSE Prefix(Strip(ReplaceBad(Val(name))), MaxNameLen)

DigitChars == <<"0","1","2","3","4","5","6","7","8","9">>

RECURSIVE Digits(_)
\* The decimal digits of a natural number.
Digits(n) == IF n < 10 THEN <<DigitChars[n + 1]>>
             ELSE Digits(n \div 10) \o <<DigitChars[(n % 10) + 1]>>

RECURSIVE ZeroPad(_, _)
ZeroPad(s, width) == IF Len(s) >= width THEN s ELSE ZeroPad(<<"0">> \o s, width)

\* f"{n:0{width}d}": zero padding goes between the sign and the digits.
FormatD(n, width) ==
    IF n < 0 THEN <<"-">> \o ZeroPad(Digits(0 - n), width - 1)
    ELSE ZeroPad(Digits(n), width)

\* Round m/4 to an integer, ties to the even neighbour (what float formatting
\* does with a value that lies exactly between two decimals).
RoundHalfEven4(m) ==
    LET q == m \div 4
        r == m % 4
    IN IF r < 2 THEN q
       ELSE IF r > 2 THEN q + 1
       ELSE IF q % 2 = 0 THEN q ELSE q + 1

\* Ties away from zero instead (schoolbook rounding).
RoundHalfUp4(m) ==
    LET q == m \div 4
        r == m % 4
    IN IF r < 2 THEN q ELSE q + 1

\* f"{x:.1f}" for the float x = e/8.  Eighths are exact in binary floating
\* point, so the tenths digit is the correctly rounded value of 10*e/8 = 5e/4.
FormatF1_HalfUp(e) ==
    LET m == IF e < 0 THEN 0 - e ELSE e
        t == RoundHalfUp4(5 * m)
    IN (IF e < 0 THEN <<"-">> ELSE <<>>) \o Digits(t \div 10) \o <<".">>
       \o <<DigitChars[(t % 10) + 1]>>

FormatF1(e) ==
    LET m == IF e < 0 THEN 0 - e ELSE e
        t == RoundHalfEven4(5 * m)
    IN (IF e < 0 THEN <<"-">> ELSE <<>>) \o Digits(t \div 10) \o <<".">>
       \o <<DigitChars[(t % 10) + 1]>>

\* The index of the last "." of s, 0 when there is none (str.rfind + 1).
LastDot(s) ==
    IF \E i \in 1..Len(s) : s[i] = "."
    THEN CHOOSE i \in 1..Len(s) : s[i] = "." /\ \A j \in (i + 1)..Len(s) : s[j] # "."
    ELSE 0

\* PurePath.with_suffix('.png') on the last path component: a suffix is what
\* follows the last dot, unless that dot starts or ends the name.
WithSuffixPng(name) ==
    LET i == LastDot(name)
        stem == IF 1 < i /\ i < Len(name) THEN SubSeq(name, 1, i - 1) ELSE name
    IN stem \o <<".","p","n","g">>

----------------------------------------------------------------------------
(* Path planning of process_dicom_file                                     *)

UnknownDate == <<"u","n","k","n","o","w","n","_","d","a","t","e">>

\* study_date[:4]-study_date[4:6]-study_date[6:8] when len(study_date) == 8
PlanDate(md) ==
    LET d0 == IF TruthyStr(md.study_date) THEN Val(md.study_date) ELSE UnknownDate
    IN IF Len(d0) = 8
       THEN SubSeq(d0, 1, 4) \o <<"-">> \o SubSeq(d0, 5, 6) \o <<"-">> \o SubSeq(d0, 7, 8)
       ELSE d0

\* A planner that forgets the modality fallback.
PlanStudyDir_NoModality(md) ==
    LET src == IF TruthyStr(md.study_description) THEN md.study_description
               ELSE Some(<<"s","t","u","d","y">>)
    IN PlanDate(md) \o <<"_">> \o sanitize_filename(src)

PlanStudyDir(md) ==
    LET src == IF TruthyStr(md.study_description) THEN md.study_description
               ELSE IF TruthyStr(md.modality) THEN md.modality
               ELSE Some(<<"s","t","u","d","y">>)
    IN PlanDate(md) \o <<"_">> \o sanitize_filename(src)

PlanSeriesDir(md) ==
    LET n == IF TruthyInt(md.series_number) THEN Val(md.series_number) ELSE 0
        src == IF TruthyStr(md.series_description) THEN md.series_description
               ELSE Some(<<"s","e","r","i","e","s">>)
    IN FormatD(n, 2) \o <<"_">> \o sanitize_filename(src)

\* The filename with the slice location rounded half away from zero.
PlanImgFilename_HalfUp(md) ==
    LET n == IF TruthyInt(md.instance_number) THEN Val(md.instance_number) ELSE 0
    IN IF md.slice_location # None
       THEN FormatD(n, 4) \o <<"_","l","o","c">> \o FormatF1_HalfUp(Val(md.slice_location))
       ELSE FormatD(n, 4)

PlanImgFilename(md) ==
    LET n == IF TruthyInt(md.instance_number) THEN Val(md.instance_number) ELSE 0
    IN IF md.slice_location # None
       THEN FormatD(n, 4) \o <<"_","l","o","c">> \o FormatF1(Val(md.slice_location))
       ELSE FormatD(n, 4)

\* img_path = output_base / study_dir / series_dir / img_filename
PlanImgPath(md) == <<PlanStudyDir(md), PlanSeriesDir(md), PlanImgFilename(md)>>

\* img_path.with_suffix('.png')
PngPath(p) == <<p[1], p[2], WithSuffixPng(p[3])>>

----------------------------------------------------------------------------
(* Specification SpecClassify: the three parsers applied to one description *)

\* Words series descriptions are built from.  "Sag", "Mip" carry lower case;
\* T10, FAT1 and COAXIAL hold a token inside a longer word; SSFSE and
\* LOCALIZER hold a lower-priority pattern (SE, LOC) inside them.
Tokens ==
    { <<"A","X">>, <<"C","O","R">>, <<"S","a","g">>,
      <<"T","1">>, <<"T","2">>, <<"T","1","0">>, <<"F","A","T","1">>,
      <<"C","O","A","X","I","A","L">>,
      <<"F","L","A","I","R">>, <<"S","E">>, <<"S","S","F","S","E">>,
      <<"L","O","C">>, <<"M","i","p">> }

Separators == { <<" ">>, <<"_">> }

\* The largest number of words in a generated description.
MaxTokens == 2

RECURSIVE DescN(_)
DescN(n) ==
    IF n = 1 THEN Tokens
    ELSE {d \o s \o t : d \in DescN(n - 1), s \in Separators, t \in Tokens}

Txt_AX_T2_FLAIR == <<"A","X"," ","T","2"," ","F","L","A","I","R">>
Txt_Sag_T1 == <<"S","a","g","_","T","1">>
Txt_COR_LOC == <<"C","O","R"," ","L","O","C">>

\* Absent, empty, the three descriptions of the specification's examples, and
\* every description of up to MaxTokens words.
Descriptions ==
    {None, Some(<<>>), Some(Txt_AX_T2_FLAIR), Some(Txt_Sag_T1), Some(Txt_COR_LOC)}
    \cup {Some(d) : d \in UNION {DescN(n) : n \in 1..MaxTokens}}

RunIdle ==
    /\ opts = None /\ pc = "idle" /\ remaining = 0 /\ walked = <<>> /\ cur = None
    /\ ds = None /\ metadata = None /\ img_path = None /\ rendered = None
    /\ stats = None /\ db = {}
    /\ nextId = 1 /\ disk = {} /\ conn = "closed" /\ lastOk = <<>>

ClassIdle ==
    /\ desc = None /\ cphase = "idle" /\ plane = None /\ weight = None
    /\ sequence_type = None

PlanIdle ==
    /\ planIn = None /\ pphase = "idle" /\ study_dir = None /\ series_dir = None
    /\ img_filename = None /\ output_path = None

SanIdle == san_name = None /\ sphase = "idle" /\ sanitized = None

RenderIdle ==
    /\ pixel_array = None /\ photometric = None /\ use_16bit = None /\ rphase = "idle"
    /\ out_array = None

ExtractIdle == tags = None /\ ephase = "idle" /\ extracted = None

ServiceIdle ==
    /\ dicom_images = <<>> /\ image_files = {} /\ panel_settings = {}
    /\ request = None /\ response = None /\ posted = {}

InitClassify ==
    /\ desc \in Descriptions
    /\ cphase = "input"
    /\ plane = None /\ weight = None /\ sequence_type = None
    /\ RunIdle /\ PlanIdle /\ SanIdle /\ RenderIdle /\ ExtractIdle
    /\ ServiceIdle

\* extract_metadata's three classification entries for SeriesDescription.
Classify ==
    /\ cphase = "input"
    /\ cphase' = "done"
    /\ plane' = parse_plane(desc)
    /\ weight' = parse_weight(desc)
    /\ sequence_type' = parse_sequence_type(desc)
    /\ UNCHANGED <<desc, runVars, serviceVars, planVars, sanVars, renderVars, extractVars>>

NextClassify == Classify

SpecClassify == InitClassify /\ [][NextClassify]_vars

----------------------------------------------------------------------------
(* Specification SpecPlan: the path planning applied to one metadata record *)

\* Slice locations are the floats e/8 for e in -MaxSliceEighths..MaxSliceEighths.
MaxSliceEighths == 34

Txt_20240923 == <<"2","0","2","4","0","9","2","3">>
Txt_BrainMRI == <<"B","r","a","i","n"," ","M","R","I">>

PlanInputs ==
    [ study_date : {None, Some(<<>>), Some(Txt_20240923), Some(<<"2","0","2","4">>)},
      study_description : {None, Some(<<>>), Some(Txt_BrainMRI), Some(<<" ","a","/","b",":"," ">>)},
      modality : {None, Some(<<"M","R">>)},
      series_number : {None, Some(0), Some(3), Some(12)},
      series_description : {None, Some(<<"A","X","*","T","2"," ">>)},
      instance_number : {None, Some(12)},
      slice_location : {None} \cup {Some(e) : e \in (0 - MaxSliceEighths)..MaxSliceEighths} ]

InitPlan ==
    /\ planIn \in PlanInputs
    /\ pphase = "input"
    /\ study_dir = None /\ series_dir = None /\ img_filename = None
    /\ output_path = None
    /\ RunIdle /\ ClassIdle /\ SanIdle /\ RenderIdle /\ ExtractIdle
    /\ ServiceIdle

\* Lines 413-436 of process_dicom_file, and the path dicom_to_image writes to
\* (line 380), which is also the one recorded in the row (line 442).
Plan ==
    /\ pphase = "input"
    /\ pphase' = "done"
    /\ study_dir' = Some(PlanStudyDir(planIn))
    /\ series_dir' = Some(PlanSeriesDir(planIn))
    /\ img_filename' = Some(PlanImgFilename(planIn))
    /\ output_path' = Some(PngPath(PlanImgPath(planIn)))
    /\ UNCHANGED <<planIn, runVars, serviceVars, classVars, sanVars, renderVars, extractVars>>

NextPlan == Plan

SpecPlan == InitPlan /\ [][NextPlan]_vars

----------------------------------------------------------------------------
(* Claims about the classification parsers (checked under SpecClassify)    *)

\* tok occurs in s with a space, an underscore or the start of s before it and a
\* space, an underscore or the end of s after it.
BoundedToken(s, tok) ==
    \E i \in 1..(Len(s) - Len(tok) + 1) :
        /\ SubSeq(s, i, i + Len(tok) - 1) = tok
        /\ (i = 1 \/ s[i - 1] \in {" ", "_"})
        /\ (i + Len(tok) - 1 = Len(s) \/ s[i + Len(tok)] \in {" ", "_"})

\* Upper-cased text of an optional description ("" when absent).
UText(d) == IF d = None THEN <<>> ELSE Upper(Val(d))

\* The plane the specification's token rule gives.
TokenPlane(d) ==
    LET u == UText(d) IN
    IF BoundedToken(u, <<"A","X">>) \/ BoundedToken(u, <<"A","X","I","A","L">>)
    THEN Some("Axial")
    ELSE IF \/ BoundedToken(u, <<"C","O","R">>)
            \/ BoundedToken(u, <<"C","O","R","O","N","A","L">>)
    THEN Some("Coronal")
    ELSE IF \/ BoundedToken(u, <<"S","A","G">>)
            \/ BoundedToken(u, <<"S","A","G","I","T","T","A","L">>)
    THEN Some("Sagittal")
    ELSE None

\* The weighting the specification's token rule gives.
TokenWeight(d) ==
    LET u == UText(d) IN
    IF BoundedToken(u, <<"T","1">>) THEN Some("T1")
    ELSE IF BoundedToken(u, <<"T","2">>) THEN Some("T2")
    ELSE None

\* The priority list of the specification's sequence-family rule.
FamilyPatterns ==
    << <<"F","L","A","I","R">>, <<"S","S","F","S","E">>, <<"S","W","I">>,
       <<"S","W","A","N">>, <<"D","W","I">>, <<"D","T","I">>, <<"A","S","L">>,
       <<"A","D","C">>, <<"G","R","E">>, <<"S","E">>, <<"L","O","C">>,
       <<"L","O","C","A","L","I","Z","E","R">> >>
FamilyLabels ==
    <<"FLAIR", "SSFSE", "SWI", "SWAN", "DWI", "DTI", "ASL", "ADC", "GRE", "SE",
      "Localizer", "Localizer">>

\* No plane, weighting or sequence token occurs anywhere in d.
NoTokenAtAll(d) ==
    LET u == UText(d) IN
    /\ \A i \in 1..Len(FamilyPatterns) : ~Contains(u, FamilyPatterns[i])
    /\ \A t \in { <<"A","X">>, <<"C","O","R">>, <<"S","A","G">>, <<"T","1">>, <<"T","2">> } :
          ~Contains(u, t)

\* C5: "AX T2 FLAIR" is classified Axial / T2 / FLAIR, "Sag_T1" Sagittal / T1 /
\* absent, "COR LOC" Coronal / absent / Localizer, and a description holding none
\* of the tokens has all three labels absent.
C5_ClassificationExamples ==
    cphase = "done" =>
        /\ desc = Some(Txt_AX_T2_FLAIR) =>
              plane = Some("Axial") /\ weight = Some("T2") /\ sequence_type = Some("FLAIR")
        /\ desc = Some(Txt_Sag_T1) =>
              plane = Some("Sagittal") /\ weight = Some("T1") /\ sequence_type = None
        /\ desc = Some(Txt_COR_LOC) =>
              plane = Some("Coronal") /\ weight = None /\ sequence_type = Some("Localizer")
        /\ NoTokenAtAll(desc) =>
              plane = None /\ weight = None /\ sequence_type = None

\* C6: parse_plane returns the plane of the first of AX/AXIAL, COR/CORONAL,
\* SAG/SAGITTAL that occurs as a token bounded on both sides by a space, an
\* underscore or the start/end of the description, and absent otherwise.
C6_PlaneIffBoundedToken ==
    cphase = "done" => plane = TokenPlane(desc)

\* C7: parse_weight returns T1 when T1 occurs as a bounded token, else T2 when T2
\* occurs as a bounded token, else absent.
C7_WeightIffBoundedToken ==
    cphase = "done" => weight = TokenWeight(desc)

----------------------------------------------------------------------------
(* Claims about path planning (checked under SpecPlan)                     *)

\* An optional text that Python treats as missing.
Missing(o) == o = None \/ Val(o) = <<>>

\* The tenths nearest to e/8, the even one when two are equally near.
NearestTenths(m) ==
    CHOOSE t \in 0..(2 * m + 1) :
        LET d == 8 * t - 10 * m
            a == IF d < 0 THEN 0 - d ELSE d
        IN a < 4 \/ (a = 4 /\ t % 2 = 0)

\* One decimal of the float e/8, as text.
OneDecimal(e) ==
    LET m == IF e < 0 THEN 0 - e ELSE e
        t == NearestTenths(m)
    IN (IF e < 0 THEN <<"-">> ELSE <<>>) \o Digits(t \div 10) \o <<".">> \o Digits(t % 10)

\* C9: study_dir is "{date}_{sanitized description}" with an 8-character date
\* YYYYMMDD written YYYY-MM-DD, a missing date written unknown_date, and the
\* description falling back to the modality and then to "study"; series_dir is the
\* series number (0 when missing) padded to two digits, "_", and the sanitized
\* series description ("series" when missing).  20240923 / "Brain MRI" gives
\* "2024-09-23_Brain MRI"; series number 3 gives the prefix "03_".
C9_StudyAndSeriesDir ==
    pphase = "done" =>
        LET md == planIn
            d == md.study_date
            descr == IF ~Missing(md.study_description) THEN md.study_description
                     ELSE IF ~Missing(md.modality) THEN md.modality
                     ELSE Some(<<"s","t","u","d","y">>)
            sdescr == IF ~Missing(md.series_description) THEN md.series_description
                      ELSE Some(<<"s","e","r","i","e","s">>)
            num == IF md.series_number = None THEN 0 ELSE Val(md.series_number)
            two == IF num < 10 THEN <<"0">> \o Digits(num) ELSE Digits(num)
        IN /\ (~Missing(d) /\ Len(Val(d)) = 8) =>
                 Val(study_dir) =
                    SubSeq(Val(d), 1, 4) \o <<"-">> \o SubSeq(Val(d), 5, 6) \o <<"-">>
                    \o SubSeq(Val(d), 7, 8) \o <<"_">> \o sanitize_filename(descr)
           /\ Missing(d) =>
                 Val(study_dir) = UnknownDate \o <<"_">> \o sanitize_filename(descr)
           /\ Val(series_dir) = two \o <<"_">> \o sanitize_filename(sdescr)
           /\ (d = Some(Txt_20240923) /\ md.study_description = Some(Txt_BrainMRI)) =>
                 Val(study_dir) = <<"2","0","2","4","-","0","9","-","2","3","_">> \o Txt_BrainMRI
           /\ md.series_number = Some(3) => SubSeq(Val(series_dir), 1, 3) = <<"0","3","_">>

\* A planned record with no study description but a modality, and series number 3.
C9_Witness ==
    /\ pphase = "done"
    /\ planIn.study_date = Some(Txt_20240923)
    /\ planIn.study_description = None
    /\ planIn.modality = Some(<<"M","R">>)
    /\ planIn.series_number = Some(3)
    /\ Val(study_dir) = <<"2","0","2","4","-","0","9","-","2","3","_","M","R">>

\* The tenths nearest to e/8, the larger one when two are equally near.
NearestTenthsAway(m) ==
    CHOOSE t \in 0..(2 * m + 1) :
        LET d == 8 * t - 10 * m
            a == IF d < 0 THEN 0 - d ELSE d
        IN a < 4 \/ (a = 4 /\ d > 0)

\* C10 as stated: the filename is the instance number padded to four digits, plus
\* "_loc" and the slice location rounded to one decimal (a tie away from zero)
\* when it is present, so that instance number 12 with slice location -4.25 gives
\* "0012_loc-4.3".
C10_FilenameAsStated ==
    pphase = "done" =>
        LET md == planIn
            n == IF md.instance_number = None THEN 0 ELSE Val(md.instance_number)
            four == ZeroPad(Digits(n), 4)
            e == Val(md.slice_location)
            m == IF e < 0 THEN 0 - e ELSE e
            t == NearestTenthsAway(m)
        IN /\ md.slice_location = None => Val(img_filename) = four
           /\ md.slice_location # None =>
                 Val(img_filename) =
                    four \o <<"_","l","o","c">> \o (IF e < 0 THEN <<"-">> ELSE <<>>)
                    \o Digits(t \div 10) \o <<".">> \o Digits(t % 10)
           /\ (md.instance_number = Some(12) /\ md.slice_location = Some(0 - 34)) =>
                 Val(img_filename) = <<"0","0","1","2","_","l","o","c","-","4",".","3">>

\* C10 amended: the filename is the instance number (0 when missing) padded to four
\* digits, plus "_loc" and the slice location written with one decimal, an exact
\* tie going to the even digit, when the slice location is present; instance
\* number 12 with slice location -4.25 gives "0012_loc-4.2".
C10_FilenameHalfEven ==
    pphase = "done" =>
        LET md == planIn
            n == IF md.instance_number = None THEN 0 ELSE Val(md.instance_number)
            four == ZeroPad(Digits(n), 4)
        IN /\ md.slice_location = None => Val(img_filename) = four
           /\ md.slice_location # None =>
                 Val(img_filename) =
                    four \o <<"_","l","o","c">> \o OneDecimal(Val(md.slice_location))
           /\ (md.instance_number = Some(12) /\ md.slice_location = Some(0 - 34)) =>
                 Val(img_filename) = <<"0","0","1","2","_","l","o","c","-","4",".","2">>

\* Instance 12 at slice location -4.25 has been planned.
C10_Witness ==
    /\ pphase = "done"
    /\ planIn.instance_number = Some(12)
    /\ planIn.slice_location = Some(0 - 34)
    /\ img_filename # None

----------------------------------------------------------------------------
(* safe_get and extract_metadata                                           *)
(*                                                                         *)
(* A dataset maps a tag to what getattr(ds, tag, default) finds: <<>> when *)
(* the tag is absent (or its value is None), <<v>> for a scalar value v,   *)
(* MultiValue(vals) for a multi-valued element holding the values vals.    *)
(* Python's str(list(value)) is kept symbolic: its text depends on the     *)
(* element type's repr, which the repository does not fix.                 *)

MultiValue(vals) == <<"MultiValue", vals>>
IsMultiValue(value) == Len(value) = 2

StrOfList(vals) == <<"str(list)", vals>>
IsStrOfList(o) == Len(o) = 2

\* safe_get(ds, attr, default) for what the dataset holds under attr.
safe_get(value, default) ==
    IF value = <<>> THEN default
    ELSE IF IsMultiValue(value)
         THEN IF Len(value[2]) = 1 THEN Some(value[2][1]) ELSE StrOfList(value[2])
    ELSE Some(value[1])

\* str(n) of an integer.
IntText(n) == IF n < 0 THEN <<"-">> \o Digits(0 - n) ELSE Digits(n)

\* str(safe_get(ds, attr, '')) for a tag whose values are text: str() of a str
\* is that str.
StrText(got) == got

\* str(safe_get(ds, attr, '')) for a tag whose values are numbers.
StrNumber(value, got) ==
    IF value = <<>> \/ IsStrOfList(got) THEN got ELSE Some(IntText(Val(got)))

\* float(wc) / float(ww) raise ValueError on the text of a list.
ExtractRaises(d) ==
    \/ IsStrOfList(safe_get(d.WindowCenter, None))
    \/ IsStrOfList(safe_get(d.WindowWidth, None))

extract_metadata(d, source_path, study_folder) ==
    [ source_path |-> source_path,
      study_folder |-> study_folder,
      study_instance_uid |-> safe_get(d.StudyInstanceUID, None),
      study_date |-> safe_get(d.StudyDate, None),
      study_time |-> safe_get(d.StudyTime, None),
      study_description |-> safe_get(d.StudyDescription, None),
      accession_number |-> safe_get(d.AccessionNumber, None),
      patient_id |-> safe_get(d.PatientID, None),
      patient_name |-> StrText(safe_get(d.PatientName, Some(<<>>))),
      patient_birth_date |-> safe_get(d.PatientBirthDate, None),
      patient_sex |-> safe_get(d.PatientSex, None),
      patient_age |-> safe_get(d.PatientAge, None),
      series_instance_uid |-> safe_get(d.SeriesInstanceUID, None),
      series_number |-> safe_get(d.SeriesNumber, None),
      series_description |-> safe_get(d.SeriesDescription, None),
      series_date |-> safe_get(d.SeriesDate, None),
      series_time |-> safe_get(d.SeriesTime, None),
      modality |-> safe_get(d.Modality, None),
      body_part_examined |-> safe_get(d.BodyPartExamined, None),
      sop_instance_uid |-> safe_get(d.SOPInstanceUID, None),
      instance_number |-> safe_get(d.InstanceNumber, None),
      acquisition_number |-> safe_get(d.AcquisitionNumber, None),
      slice_location |-> safe_get(d.SliceLocation, None),
      slice_thickness |-> safe_get(d.SliceThickness, None),
      image_position_patient |->
          StrNumber(d.ImagePositionPatient, safe_get(d.ImagePositionPatient, Some(<<>>))),
      image_orientation_patient |->
          StrNumber(d.ImageOrientationPatient,
                    safe_get(d.ImageOrientationPatient, Some(<<>>))),
      rows |-> safe_get(d.Rows, None),
      columns |-> safe_get(d.Columns, None),
      bits_allocated |-> safe_get(d.BitsAllocated, None),
      bits_stored |-> safe_get(d.BitsStored, None),
      high_bit |-> safe_get(d.HighBit, None),
      pixel_spacing |-> StrNumber(d.PixelSpacing, safe_get(d.PixelSpacing, Some(<<>>))),
      photometric_interpretation |-> safe_get(d.PhotometricInterpretation, None),
      samples_per_pixel |-> safe_get(d.SamplesPerPixel, None),
      \* float(wc), float(ww): a number stays that number, None stays None
      window_center |-> safe_get(d.WindowCenter, None),
      window_width |-> safe_get(d.WindowWidth, None),
      rescale_intercept |-> safe_get(d.RescaleIntercept, None),
      rescale_slope |-> safe_get(d.RescaleSlope, None),
      manufacturer |-> safe_get(d.Manufacturer, None),
      manufacturer_model_name |-> safe_get(d.ManufacturerModelName, None),
      station_name |-> safe_get(d.StationName, None),
      institution_name |-> safe_get(d.InstitutionName, None),
      magnetic_field_strength |-> safe_get(d.MagneticFieldStrength, None),
      sequence_name |-> safe_get(d.SequenceName, None),
      scanning_sequence |-> StrText(safe_get(d.ScanningSequence, Some(<<>>))),
      repetition_time |-> safe_get(d.RepetitionTime, None),
      echo_time |-> safe_get(d.EchoTime, None),
      inversion_time |-> safe_get(d.InversionTime, None),
      flip_angle |-> safe_get(d.FlipAngle, None),
      plane |-> parse_plane(safe_get(d.SeriesDescription, None)),
      weight |-> parse_weight(safe_get(d.SeriesDescription, None)),
      sequence_type |-> parse_sequence_type(safe_get(d.SeriesDescription, None)) ]

\* The format specs :02d, :04d and :.1f raise ValueError on a str.
PlanRaises(md) ==
    \/ IsStrOfList(md.series_number)
    \/ IsStrOfList(md.instance_number)
    \/ IsStrOfList(md.slice_location)

----------------------------------------------------------------------------
(* The files of a run                                                      *)

Txt_scans == <<"s","c","a","n","s">>
Txt_s1 == <<"s","1">>

\* Entries under the scan root "scans": path is str(file_path), rel the parts of
\* file_path.relative_to(scan_root), magic what pydicom.misc.is_dicom answers.
Entries ==
    { [path |-> "scans/s1/a.DCM", rel |-> <<Txt_s1, <<"a",".","D","C","M">>>>,
       isfile |-> TRUE, magic |-> TRUE],
      [path |-> "scans/s1/sub/b", rel |-> <<Txt_s1, <<"s","u","b">>, <<"b">>>>,
       isfile |-> TRUE, magic |-> TRUE],
      [path |-> "scans/notes.txt", rel |-> <<<<"n","o","t","e","s",".","t","x","t">>>>,
       isfile |-> TRUE, magic |-> FALSE],
      [path |-> "scans/s1/raw", rel |-> <<Txt_s1, <<"r","a","w">>>>,
       isfile |-> TRUE, magic |-> FALSE],
      [path |-> "scans/.cache/h.dcm", rel |-> <<<<".","c","a","c","h","e">>, <<"h",".","d","c","m">>>>,
       isfile |-> TRUE, magic |-> TRUE],
      [path |-> "scans/s1/z.ZIP", rel |-> <<Txt_s1, <<"z",".","Z","I","P">>>>,
       isfile |-> TRUE, magic |-> FALSE],
      [path |-> "scans/s1", rel |-> <<Txt_s1>>, isfile |-> FALSE, magic |-> FALSE] }

\* What the two loops of export_all_dicoms can meet next: an entry rglob yields
\* under the scan root, a file named as an input, or an input that does not exist.
WalkItems ==
    {[kind |-> "dir", f |-> e] : e \in Entries}
    \cup {[kind |-> "file", f |-> e] : e \in {x \in Entries : x.isfile /\ x.magic}}
    \cup {[kind |-> "missing", f |-> [path |-> "nowhere"]]}

ItemName(it) == <<it.kind, it.f.path>>

LowerChar(c) ==
    IF \E i \in 1..Len(UpperChars) : UpperChars[i] = c
    THEN LowerChars[CHOOSE i \in 1..Len(UpperChars) : UpperChars[i] = c]
    ELSE c

\* str.lower()
Lower(s) == [i \in 1..Len(s) |-> LowerChar(s[i])]

\* PurePath.suffix of a file name.
Suffix(name) ==
    LET i == LastDot(name)
    IN IF 1 < i /\ i < Len(name) THEN SubSeq(name, i, Len(name)) ELSE <<>>

FileName(f) == f.rel[Len(f.rel)]

allowed_suffixes ==
    { <<".","d","c","m">>, <<".","d","i","c","o","m">>, <<".","i","m","a">> }

\* A filter that never sniffs the header of an extensionless file.
should_consider_file_SuffixOnly(o, f) ==
    IF o.scan_all_files THEN TRUE
    ELSE Lower(Suffix(FileName(f))) \in allowed_suffixes

\* A filter that takes every extensionless file without a look at its header.
should_consider_file_NoSniff(o, f) ==
    IF o.scan_all_files THEN TRUE
    ELSE LET suffix == Lower(Suffix(FileName(f)))
         IN suffix \in allowed_suffixes \/ suffix = <<>>

should_consider_file(o, f) ==
    IF o.scan_all_files THEN TRUE
    ELSE LET suffix == Lower(Suffix(FileName(f)))
         IN IF suffix \in allowed_suffixes THEN TRUE
            ELSE IF suffix = <<>> THEN f.magic
            ELSE FALSE

\* A labelling that takes the directory the file lies in.
derive_study_folder_ImmediateParent(o, f) ==
    IF Len(f.rel) > 1 THEN f.rel[Len(f.rel) - 1] ELSE Txt_scans

\* derive_study_folder_for_file(scan_root, file_path), scan_root being "scans".
derive_study_folder_for_file(o, f) ==
    IF o.group_by_top_level_folder /\ Len(f.rel) > 1 THEN f.rel[1] ELSE Txt_scans

\* input_path.parent.name of a file given as an input.
ParentName(f) == IF Len(f.rel) > 1 THEN f.rel[Len(f.rel) - 1] ELSE Txt_scans

\* any(part.startswith('.') for part in rel_parts)
IsHidden(f) == \E i \in 1..Len(f.rel) : f.rel[i] # <<>> /\ f.rel[i][1] = "."

\* file_path.suffix.lower() == '.zip'
IsZip(f) == Lower(Suffix(FileName(f))) = <<".","z","i","p">>

\* A scan that passes over nothing but directories.
Ignored_OnlyDirectories(it) == it.kind = "dir" /\ ~it.f.isfile

\* The entries the directory scan passes over without counting them.
Ignored(it) == it.kind = "dir" /\ (~it.f.isfile \/ IsHidden(it.f) \/ IsZip(it.f))

----------------------------------------------------------------------------
(* Specification Spec: one run of export_all_dicoms                        *)

\* The most entries the inputs of one run yield.
MaxFiles == 2

Txt_MR == <<"M","R">>

\* The tags extract_metadata asks for.
Tags ==
    {"StudyInstanceUID", "StudyDate", "StudyTime", "StudyDescription", "AccessionNumber",
     "PatientID", "PatientName", "PatientBirthDate", "PatientSex", "PatientAge",
     "SeriesInstanceUID", "SeriesNumber", "SeriesDescription", "SeriesDate", "SeriesTime",
     "Modality", "BodyPartExamined", "SOPInstanceUID", "InstanceNumber",
     "AcquisitionNumber", "SliceLocation", "SliceThickness", "ImagePositionPatient",
     "ImageOrientationPatient", "Rows", "Columns", "BitsAllocated", "BitsStored", "HighBit",
     "PixelSpacing", "PhotometricInterpretation", "SamplesPerPixel", "WindowCenter",
     "WindowWidth", "RescaleIntercept", "RescaleSlope", "Manufacturer",
     "ManufacturerModelName", "StationName", "InstitutionName", "MagneticFieldStrength",
     "SequenceName", "ScanningSequence", "RepetitionTime", "EchoTime", "InversionTime",
     "FlipAngle"}

\* A dataset that holds none of them.
NoElements == [t \in Tags |-> <<>>]

\* A complete single-frame instance.
dsFull ==
    [ StudyInstanceUID |-> <<"1.2.1">>, SeriesInstanceUID |-> <<"1.2.1.7">>,
      StudyDate |-> <<Txt_20240923>>, StudyDescription |-> <<Txt_BrainMRI>>,
      PatientName |-> <<>>, Modality |-> <<Txt_MR>>, SeriesNumber |-> <<3>>,
      SeriesDescription |-> <<Txt_AX_T2_FLAIR>>, InstanceNumber |-> <<12>>,
      SliceLocation |-> <<0 - 34>>, WindowCenter |-> <<40>>, WindowWidth |-> <<80>>,
      PixelData |-> TRUE ] @@ NoElements

\* What force=True reads from a file with no recognisable element: nothing.
dsEmpty ==
    [ StudyInstanceUID |-> <<>>, SeriesInstanceUID |-> <<>>, StudyDate |-> <<>>,
      StudyDescription |-> <<>>, PatientName |-> <<>>, Modality |-> <<>>,
      SeriesNumber |-> <<>>, SeriesDescription |-> <<>>, InstanceNumber |-> <<>>,
      SliceLocation |-> <<>>, WindowCenter |-> <<>>, WindowWidth |-> <<>>,
      PixelData |-> FALSE ] @@ NoElements

\* An instance of another study with two window presets.
dsTwoWindows ==
    [dsFull EXCEPT !.StudyInstanceUID = <<"1.2.2">>, !.SeriesInstanceUID = <<"1.2.2.1">>,
                   !.WindowCenter = MultiValue(<<40, 400>>),
                   !.WindowWidth = MultiValue(<<80, 2000>>)]

\* An instance of a third study whose series number holds two values.
dsTwoSeriesNumbers ==
    [dsFull EXCEPT !.StudyInstanceUID = <<"1.2.3">>, !.SeriesInstanceUID = <<"1.2.3.1">>,
                   !.SeriesNumber = MultiValue(<<3, 4>>)]

Datasets == {dsFull, dsEmpty, dsTwoWindows, dsTwoSeriesNumbers}

\* The dict `stats` as export_all_dicoms creates it.
Stats0 ==
    [total_files |-> 0, processed |-> 0, failed |-> 0, skipped |-> 0,
     studies |-> {}, series |-> {}]

\* Lines 405-411: the UID sets of stats take the file's UIDs when truthy.
AddUids(st, md) ==
    [st EXCEPT
        !.studies = IF md.study_instance_uid # None /\ Val(md.study_instance_uid) # ""
                    THEN @ \cup {Val(md.study_instance_uid)} ELSE @,
        !.series = IF md.series_instance_uid # None /\ Val(md.series_instance_uid) # ""
                   THEN @ \cup {Val(md.series_instance_uid)} ELSE @]

\* The metadata fields the path planning reads.
PlanView(md) ==
    [ study_date |-> md.study_date, study_description |-> md.study_description,
      modality |-> md.modality, series_number |-> md.series_number,
      series_description |-> md.series_description,
      instance_number |-> md.instance_number, slice_location |-> md.slice_location ]

\* dicom_to_image's result: False without a pixel element, False when anything
\* inside its try block raises (decodes == FALSE), True once the PNG is saved.
dicom_to_image(d, decodes) == d.PixelData /\ decodes

\* An export step that records the planned path whatever the renderer returned.
ExportedPath_Always(ok, p) == Some(PngPath(p))

\* metadata['exported_jpeg_path'] of lines 439-442.
ExportedPath(ok, p) == IF ok THEN Some(PngPath(p)) ELSE None

\* An update in place: the row of a known path keeps its id.
InsertOrReplace_KeepId(rows, id, md) ==
    IF \E r \in rows : r.md.source_path = md.source_path
    THEN {IF r.md.source_path = md.source_path THEN [id |-> r.id, md |-> md] ELSE r :
             r \in rows}
    ELSE rows \cup {[id |-> id, md |-> md]}

\* A plain INSERT that leaves the old row of the path in place.
InsertOrReplace_KeepOld(rows, id, md) == rows \cup {[id |-> id, md |-> md]}

\* A write that is put off: the row is not in the table when the call returns.
InsertOrReplace_Deferred(rows, id, md) == rows

\* A table that also keeps exported image paths unique.
InsertOrReplace_OneRowPerImage(rows, id, md) ==
    {r \in rows : /\ r.md.source_path # md.source_path
                  /\ r.md.exported_jpeg_path # md.exported_jpeg_path}
    \cup {[id |-> id, md |-> md]}

\* INSERT OR REPLACE under UNIQUE(source_path): the row in conflict is deleted and
\* the new row, which names every column but id and created_at, is inserted.
InsertOrReplace(rows, id, md) ==
    {r \in rows : r.md.source_path # md.source_path} \cup {[id |-> id, md |-> md]}

\* An except clause that forgets to count.
CountFailed_Forgets(st) == st

\* stats['failed'] += 1
CountFailed(st) == [st EXCEPT !.failed = @ + 1]

Bump(w, it) ==
    [n \in DOMAIN w \cup {ItemName(it)} |->
        IF n = ItemName(it) THEN (IF n \in DOMAIN w THEN w[n] + 1 ELSE 1) ELSE w[n]]

InitRun ==
    /\ opts \in [scan_all_files : BOOLEAN, group_by_top_level_folder : BOOLEAN]
    /\ pc = "loop"
    /\ remaining \in 0..MaxFiles
    /\ walked = <<>>
    /\ cur = None /\ ds = None /\ metadata = None /\ img_path = None /\ rendered = None
    /\ stats = Stats0
    /\ db = {} /\ nextId = 1 /\ disk = {}
    /\ conn = "open"
    /\ lastOk = <<>>
    /\ ClassIdle /\ PlanIdle /\ SanIdle /\ RenderIdle /\ ExtractIdle
    /\ ServiceIdle

fileVars == <<cur, ds, metadata, img_path, rendered>>

\* Line 553: an input path that does not exist is reported and passed over.
SkipMissingInput ==
    \E it \in WalkItems :
        /\ pc = "loop" /\ remaining > 0 /\ it.kind = "missing"
        /\ remaining' = remaining - 1
        /\ walked' = Bump(walked, it)
        /\ UNCHANGED <<opts, pc, fileVars, stats, db, nextId, disk, conn, lastOk>>
        /\ UNCHANGED funVars

\* Lines 574-584: directories, hidden entries and zip archives are passed over.
PassOver ==
    \E it \in WalkItems :
        /\ pc = "loop" /\ remaining > 0 /\ it.kind = "dir" /\ Ignored(it)
        /\ remaining' = remaining - 1
        /\ walked' = Bump(walked, it)
        /\ UNCHANGED <<opts, pc, fileVars, stats, db, nextId, disk, conn, lastOk>>
        /\ UNCHANGED funVars

\* Lines 557-563 and 586-592: a candidate is counted, then filtered.
Consider ==
    \E it \in WalkItems :
        /\ pc = "loop" /\ remaining > 0
        /\ it.kind \in {"dir", "file"} /\ it.f.isfile /\ ~Ignored(it)
        /\ remaining' = remaining - 1
        /\ walked' = Bump(walked, it)
        /\ IF should_consider_file(opts, it.f)
           THEN /\ stats' = [stats EXCEPT !.total_files = @ + 1]
                /\ cur' = Some([path |-> it.f.path,
                                study_folder |->
                                    IF it.kind = "file" THEN ParentName(it.f)
                                    ELSE derive_study_folder_for_file(opts, it.f)])
                /\ pc' = "read"
           ELSE /\ stats' = [stats EXCEPT !.total_files = @ + 1, !.skipped = @ + 1]
                /\ UNCHANGED <<cur, pc>>
        /\ UNCHANGED <<opts, ds, metadata, img_path, rendered, db, nextId, disk, conn, lastOk>>
        /\ UNCHANGED funVars

\* Line 400: pydicom.dcmread(str(dcm_path), force=True) returns a dataset or raises.
Read ==
    /\ pc = "read"
    /\ \/ \E d \in Datasets : ds' = Some(d) /\ pc' = "extract"
       \/ ds' = None /\ pc' = "except"
    /\ UNCHANGED <<opts, remaining, walked, cur, metadata, img_path, rendered, stats, db,
                   nextId, disk, conn, lastOk>>
    /\ UNCHANGED funVars

\* Lines 403-411: extract_metadata, then the UID sets of stats.
Extract ==
    /\ pc = "extract"
    /\ IF ExtractRaises(Val(ds))
       THEN pc' = "except" /\ UNCHANGED <<metadata, stats>>
       ELSE LET md == extract_metadata(Val(ds), Val(cur).path, Val(cur).study_folder)
            IN /\ metadata' = Some(md)
               /\ stats' = AddUids(stats, md)
               /\ pc' = "plan"
    /\ UNCHANGED <<opts, remaining, walked, cur, ds, img_path, rendered, db, nextId, disk,
                   conn, lastOk>>
    /\ UNCHANGED funVars

\* Lines 413-436: the output path.
PlanPath ==
    /\ pc = "plan"
    /\ IF PlanRaises(Val(metadata))
       THEN pc' = "except" /\ UNCHANGED img_path
       ELSE img_path' = Some(PlanImgPath(PlanView(Val(metadata)))) /\ pc' = "render"
    /\ UNCHANGED <<opts, remaining, walked, cur, ds, metadata, rendered, stats, db, nextId,
                   disk, conn, lastOk>>
    /\ UNCHANGED funVars

\* Lines 439-442: dicom_to_image and the exported path of the row.
Render ==
    /\ pc = "render"
    /\ \E decodes \in BOOLEAN :
        LET ok == dicom_to_image(Val(ds), decodes)
            png == PngPath(Val(img_path))
        IN /\ rendered' = Some(ok)
           /\ disk' = IF ok
                      THEN {e \in disk : e.path # png}
                           \cup {[path |-> png, src |-> Val(cur).path]}
                      ELSE disk
           /\ metadata' = Some([exported_jpeg_path |-> ExportedPath(ok, Val(img_path))]
                               @@ Val(metadata))
    /\ pc' = "upsert"
    /\ UNCHANGED <<opts, remaining, walked, cur, ds, img_path, stats, db, nextId, conn, lastOk>>
    /\ UNCHANGED funVars

\* Lines 444-455 and the caller's stats['processed'] += 1: the statement and its
\* commit succeed, or the statement raises and leaves the table as it was.
Upsert ==
    /\ pc = "upsert"
    /\ conn = "open"
    /\ \/ /\ db' = InsertOrReplace(db, nextId, Val(metadata))
          /\ nextId' = nextId + 1
          /\ lastOk' = [q \in DOMAIN lastOk \cup {Val(cur).path} |->
                           IF q = Val(cur).path THEN Val(metadata) ELSE lastOk[q]]
          /\ stats' = [stats EXCEPT !.processed = @ + 1]
          /\ pc' = "loop"
          /\ cur' = None /\ ds' = None /\ metadata' = None /\ img_path' = None
          /\ rendered' = None
       \/ /\ pc' = "except"
          /\ UNCHANGED <<db, nextId, lastOk, stats, fileVars>>
    /\ UNCHANGED <<opts, remaining, walked, disk, conn>>
    /\ UNCHANGED funVars

\* Lines 457-459 and the caller's else branch: the error is printed, the file
\* counts as failed and the loop goes on.
Except ==
    /\ pc = "except"
    /\ stats' = CountFailed(stats)
    /\ pc' = "loop"
    /\ cur' = None /\ ds' = None /\ metadata' = None /\ img_path' = None
    /\ rendered' = None
    /\ UNCHANGED <<opts, remaining, walked, db, nextId, disk, conn, lastOk>>
    /\ UNCHANGED funVars

\* Lines 601-605: the inputs are exhausted; close and turn the UID sets into counts.
EndRun ==
    /\ pc = "loop" /\ remaining = 0
    /\ conn' = "closed"
    /\ stats' = [stats EXCEPT !.studies = Cardinality(@), !.series = Cardinality(@)]
    /\ pc' = "done"
    /\ UNCHANGED <<opts, remaining, walked, fileVars, db, nextId, disk, lastOk>>
    /\ UNCHANGED funVars

\* A KeyboardInterrupt (not an Exception) between two files or while a file is
\* read leaves export_all_dicoms at once; no handler or finally clause runs.
Interrupt ==
    /\ pc \in {"loop", "read"}
    /\ pc' = "aborted"
    /\ UNCHANGED <<opts, remaining, walked, fileVars, stats, db, nextId, disk, conn, lastOk>>
    /\ UNCHANGED funVars

Init == InitRun

Next ==
    \/ SkipMissingInput \/ PassOver \/ Consider
    \/ Read \/ Extract \/ PlanPath \/ Render \/ Upsert \/ Except
    \/ EndRun \/ Interrupt

Spec == Init /\ [][Next]_vars

----------------------------------------------------------------------------
(* Claims about the run (checked under Spec)                               *)

ErrorCounted ==
    pc = "except" =>
        /\ pc' = "loop"
        /\ stats'.failed = stats.failed + 1
        /\ stats'.processed = stats.processed
        /\ stats'.skipped = stats.skipped
        /\ stats'.total_files = stats.total_files
        /\ remaining' = remaining
        /\ conn' = "open"

\* Whatever happens inside the handling of a file, the run stays in its loop.
ErrorStaysInFile ==
    pc \in {"extract", "plan", "render", "upsert"} =>
        pc' \in {"plan", "render", "upsert", "loop", "except"}

\* The run ends only when the inputs have nothing left to yield.
RunEndsExhausted == pc' = "done" => remaining' = 0

\* C2: an error in the handling of one file is caught at the per-file boundary:
\* the failed counter goes up by exactly one, the other counters and the pending
\* entries stay, the connection stays open and the loop goes on; a run that ends
\* has been through all its entries.
C2_FileErrorIsCounted ==
    /\ [][ErrorCounted]_vars
    /\ [][ErrorStaysInFile]_vars
    /\ [][RunEndsExhausted]_vars

\* A file is being read after the failure of an earlier one.
C2_Witness ==
    /\ pc = "read"
    /\ stats.failed = 1
    /\ stats.total_files = 2

\* An entry that is a file with a wrong signature and no matching extension.
NonInstance(it) ==
    /\ it.kind = "dir" /\ it.f.isfile /\ ~Ignored(it)
    /\ ~it.f.magic
    /\ Lower(Suffix(FileName(it.f))) \notin allowed_suffixes

\* An entry that is an instance file by its extension or its signature.
ValidInstance(it) ==
    /\ it.kind = "dir" /\ it.f.isfile /\ ~Ignored(it)
    /\ it.f.magic
    /\ Lower(Suffix(FileName(it.f))) \in allowed_suffixes \cup {<<>>}

\* The run went through a directory holding exactly one valid instance and one
\* non-instance file.
OneValidOneNot ==
    \E v, n \in WalkItems :
        /\ ValidInstance(v) /\ NonInstance(n)
        /\ DOMAIN walked = {ItemName(v), ItemName(n)}
        /\ walked[ItemName(v)] = 1 /\ walked[ItemName(n)] = 1

RenderReturns ==
    pc = "render" =>
        /\ pc' = "upsert"
        /\ (~Val(ds).PixelData => rendered' = Some(FALSE))
        /\ (rendered' = Some(FALSE) => Val(metadata').exported_jpeg_path = None)

\* The upsert of a file that was not rendered stores its row with a null path
\* and the file counts as processed.
UnrenderedIsStored ==
    (pc = "upsert" /\ rendered = Some(FALSE) /\ pc' = "loop") =>
        /\ \E r \in db' :
              /\ r.md = Val(metadata)
              /\ r.md.source_path = Val(cur).path
              /\ r.md.exported_jpeg_path = None
        /\ stats'.processed = stats.processed + 1
        /\ stats'.failed = stats.failed

\* C4: the rendering step never raises: it is always followed by the upsert; a
\* dataset without pixel data, or one whose rendering faults, gives "not rendered"
\* and a null exported path; and when the upsert of such a file goes through, its
\* row is in the table with a null path and the file counts as processed.
C4_RenderNeverFails ==
    /\ [][RenderReturns]_vars
    /\ [][UnrenderedIsStored]_vars

\* A file with pixel data whose rendering faulted is in the table without an
\* image path, and no file has failed.
C4_Witness ==
    /\ pc = "loop"
    /\ stats.processed = 1 /\ stats.failed = 0
    /\ \E r \in db :
          /\ r.md.exported_jpeg_path = None
          /\ r.md.study_instance_uid = Some("1.2.1")

----------------------------------------------------------------------------
(* Specification SpecSanitize: sanitize_filename applied to one name       *)

\* The longest run of plain characters a name starts with.
MaxPad == 50

RECURSIVE Pad(_)
\* k plain characters.
Pad(k) == IF k = 0 THEN <<>> ELSE <<"x">> \o Pad(k - 1)

\* Characters a name ends with: plain, whitespace and replaced ones.
TailChars == {"a", " ", "/", "|"}

\* What a name may end with: up to three of TailChars.
Tails == {<<>>} \cup UNION {[1..n -> TailChars] : n \in 1..3}

\* What a name may start with.
Leads == {<<>>, <<" ">>, <<"\t", "?">>}

\* The names sanitize_filename is applied to: absent, or lead, padding, tail.
Names ==
    {None} \cup {Some(l \o Pad(k) \o t) : l \in Leads, k \in 0..MaxPad, t \in Tails}

InitSanitize ==
    /\ san_name \in Names
    /\ sphase = "input"
    /\ sanitized = None
    /\ RunIdle /\ ClassIdle /\ PlanIdle /\ RenderIdle /\ ExtractIdle
    /\ ServiceIdle

\* One call of sanitize_filename.
Sanitize ==
    /\ sphase = "input"
    /\ sphase' = "done"
    /\ sanitized' = Some(sanitize_filename(san_name))
    /\ UNCHANGED <<san_name, runVars, serviceVars, classVars, planVars, renderVars, extractVars>>

NextSanitize == Sanitize

SpecSanitize == InitSanitize /\ [][NextSanitize]_vars

\* The input with each of the nine characters replaced by an underscore.
Replaced(n) ==
    [k \in 1..Len(n) |->
        IF n[k] \in {"/", "\\", ":", "*", "?", "\"", "<", ">", "|"} THEN "_" ELSE n[k]]

\* The positions of r that hold something else than whitespace.
Inked(r) == {k \in 1..Len(r) : r[k] \notin {" ", "\t", "\n"}}

\* C11: sanitize_filename returns, for a non-empty name, the name with each of
\* / \ : * ? " < > | replaced by _, then without its surrounding whitespace,
\* then cut to its first 50 characters; for an empty or absent name it returns
\* the text unknown.
C11_SanitizeContract ==
    sphase = "done" =>
        IF san_name = None \/ san_name = Some(<<>>)
        THEN sanitized = Some(<<"u","n","k","n","o","w","n">>)
        ELSE LET r == Replaced(Val(san_name))
                 ink == Inked(r)
                 out == Val(sanitized)
             IN IF ink = {} THEN out = <<>>
                ELSE LET first == CHOOSE k \in ink : \A j \in ink : k <= j
                         last == CHOOSE k \in ink : \A j \in ink : j <= k
                         n == last - first + 1
                     IN /\ Len(out) = (IF n < 50 THEN n ELSE 50)
                        /\ \A k \in 1..Len(out) : out[k] = r[first + k - 1]

\* A name of more than 50 characters with whitespace in front, a replaced
\* character and whitespace where the cut falls has been sanitized to 50
\* characters, the last of them a space.
C11_Witness ==
    /\ sphase = "done"
    /\ san_name # None
    /\ Len(Val(san_name)) > 50
    /\ Val(san_name)[1] = "\t"
    /\ \E k \in 1..Len(Val(san_name)) : Val(san_name)[k] = "/"
    /\ Len(Val(sanitized)) = 50
    /\ Val(sanitized)[50] = " "
    /\ Val(sanitized)[1] = "_"

----------------------------------------------------------------------------
(* Specification SpecRender: the grayscale branch of dicom_to_image        *)
(*                                                                         *)
(* pixel_array is the sample grid after apply_modality_lut and             *)
(* apply_voi_lut, flattened row by row; its dimensions are its length.     *)
(* With sample ranges this small the float64 quotient times the top value, *)
(* cut to an integer by astype, is the floor of the exact quotient.        *)

\* The most samples of a grid.
MaxPixels == 4

\* The largest sample value of a grid.
MaxSample == 2

PixelArrays == UNION {[1..n -> 0..MaxSample] : n \in 1..MaxPixels}

\* pixel_array.min() and pixel_array.max()
ArrayMin(a) == CHOOSE v \in {a[k] : k \in 1..Len(a)} : \A k \in 1..Len(a) : v <= a[k]
ArrayMax(a) == CHOOSE v \in {a[k] : k \in 1..Len(a)} : \A k \in 1..Len(a) : a[k] <= v

\* 65535 for the 16-bit target, 255 for the 8-bit one.
TopValue(use16) == IF use16 THEN 65535 ELSE 255

\* What a sample becomes when the range it is divided by is empty.
DivByZero == 0 - 1

\* (pixel_array - min_val) / (max_val - min_val) * top, then astype.
Rescale(a, lo, hi, top) ==
    [k \in 1..Len(a) |-> IF hi = lo THEN DivByZero ELSE ((a[k] - lo) * top) \div (hi - lo)]

\* np.zeros_like(pixel_array, dtype=...)
ZerosLike(a) == [k \in 1..Len(a) |-> 0]

\* A normalisation that divides whatever the range is.
RangeIsWide_Always(lo, hi) == TRUE

\* The test `max_val > min_val`.
RangeIsWide(lo, hi) == hi > lo

\* Lines 330-354: normalise to the full range, invert for MONOCHROME1.
RenderGrayscale(a, pm, use16) ==
    LET lo == ArrayMin(a)
        hi == ArrayMax(a)
        top == TopValue(use16)
        normalized == IF RangeIsWide(lo, hi) THEN Rescale(a, lo, hi, top) ELSE ZerosLike(a)
    IN IF pm = "MONOCHROME1" THEN [k \in 1..Len(a) |-> top - normalized[k]]
       ELSE normalized

InitRender ==
    /\ pixel_array \in {Some(a) : a \in PixelArrays}
    /\ photometric \in {"MONOCHROME1", "MONOCHROME2"}
    /\ use_16bit \in BOOLEAN
    /\ rphase = "input"
    /\ out_array = None
    /\ RunIdle /\ ClassIdle /\ PlanIdle /\ SanIdle /\ ExtractIdle
    /\ ServiceIdle

\* The grayscale branch of one call of dicom_to_image.
RenderGrid ==
    /\ rphase = "input"
    /\ rphase' = "done"
    /\ out_array' = Some(RenderGrayscale(Val(pixel_array), photometric, use_16bit))
    /\ UNCHANGED <<pixel_array, photometric, use_16bit, runVars, serviceVars, classVars, planVars,
                   sanVars, extractVars>>

NextRender == RenderGrid

SpecRender == InitRender /\ [][NextRender]_vars

\* All samples of a grid are equal.
Flat(a) == \A j, k \in 1..Len(a) : a[j] = a[k]

\* C12, as stated: a flat grayscale grid, of either monochrome variant and
\* either target depth, is rendered as an all-zero grid of the same dimensions,
\* with no division fault.
C12_FlatIsAllZero ==
    (rphase = "done" /\ Flat(Val(pixel_array))) =>
        /\ Len(Val(out_array)) = Len(Val(pixel_array))
        /\ \A k \in 1..Len(Val(out_array)) : Val(out_array)[k] = 0

\* C12, amended: a flat grayscale grid is rendered without a division, as a
\* grid of the same dimensions that is all zero for MONOCHROME2 and, after the
\* inversion, all 65535 (16-bit) or all 255 (8-bit) for MONOCHROME1.
C12_FlatIsUniform ==
    (rphase = "done" /\ Flat(Val(pixel_array))) =>
        /\ Len(Val(out_array)) = Len(Val(pixel_array))
        /\ \A k \in 1..Len(Val(out_array)) :
            Val(out_array)[k] =
                (IF photometric = "MONOCHROME2" THEN 0
                 ELSE IF use_16bit THEN 65535 ELSE 255)

\* A flat MONOCHROME1 grid of several non-zero samples has been rendered for
\* the 16-bit target.
C12_Witness ==
    /\ rphase = "done"
    /\ Flat(Val(pixel_array))
    /\ Len(Val(pixel_array)) > 1
    /\ Val(pixel_array)[1] > 0
    /\ photometric = "MONOCHROME1"
    /\ use_16bit
    /\ Val(out_array)[1] = 65535

----------------------------------------------------------------------------
(* Specification SpecExtract: extract_metadata applied to one dataset      *)

\* The most values of a multi-valued element.
MaxVM == 2

\* What a dataset may hold under a tag whose values are taken from vs, in
\* order: nothing, the first value, or a multi-valued element of the first
\* 0..MaxVM values.
Elements(vs) ==
    {<<>>, <<vs[1]>>} \cup {MultiValue(SubSeq(vs, 1, n)) : n \in 0..MaxVM}

Txt_Doe == <<"D","o","e">>

\* The datasets extract_metadata is applied to: a complete instance or an empty
\* dataset, with the elements of six tags varied.
ExtractInputs ==
    {[base EXCEPT !.PatientName = pn, !.WindowCenter = wc, !.WindowWidth = ww,
                  !.SliceLocation = sl, !.ImagePositionPatient = ipp,
                  !.RescaleSlope = rs] :
        base \in {dsFull, dsEmpty},
        pn \in {<<>>, <<Txt_Doe>>},
        wc \in Elements(<<40, 400, 4000, 7>>),
        ww \in {<<>>, <<80>>, MultiValue(<<80, 2000>>)},
        sl \in Elements(<<0 - 34, 8, 16, 24>>),
        ipp \in {<<>>, MultiValue(<<1, 2, 3>>)},
        rs \in {<<>>, <<2>>}}

\* What the call leaves when extract_metadata raises.
Raised(e) == <<"raises", e>>
IsRaised(o) == Len(o) = 2

InitExtract ==
    /\ tags \in {Some(d) : d \in ExtractInputs}
    /\ ephase = "input"
    /\ extracted = None
    /\ RunIdle /\ ClassIdle /\ PlanIdle /\ SanIdle /\ RenderIdle
    /\ ServiceIdle

\* One call of extract_metadata.
ExtractOne ==
    /\ ephase = "input"
    /\ ephase' = "done"
    /\ extracted' = IF ExtractRaises(Val(tags)) THEN Raised("ValueError")
                    ELSE Some(extract_metadata(Val(tags), <<"a">>, <<"s">>))
    /\ UNCHANGED <<tags, runVars, serviceVars, classVars, planVars, sanVars, renderVars>>

NextExtract == ExtractOne

SpecExtract == InitExtract /\ [][NextExtract]_vars

----------------------------------------------------------------------------
(* Claims about safe_get and extract_metadata (checked under SpecExtract)  *)

\* The tag each field of the metadata record is taken from.
FieldTag ==
    [ study_instance_uid |-> "StudyInstanceUID", study_date |-> "StudyDate",
      study_time |-> "StudyTime", study_description |-> "StudyDescription",
      accession_number |-> "AccessionNumber", patient_id |-> "PatientID",
      patient_name |-> "PatientName", patient_birth_date |-> "PatientBirthDate",
      patient_sex |-> "PatientSex", patient_age |-> "PatientAge",
      series_instance_uid |-> "SeriesInstanceUID", series_number |-> "SeriesNumber",
      series_description |-> "SeriesDescription", series_date |-> "SeriesDate",
      series_time |-> "SeriesTime", modality |-> "Modality",
      body_part_examined |-> "BodyPartExamined", sop_instance_uid |-> "SOPInstanceUID",
      instance_number |-> "InstanceNumber", acquisition_number |-> "AcquisitionNumber",
      slice_location |-> "SliceLocation", slice_thickness |-> "SliceThickness",
      image_position_patient |-> "ImagePositionPatient",
      image_orientation_patient |-> "ImageOrientationPatient",
      rows |-> "Rows", columns |-> "Columns", bits_allocated |-> "BitsAllocated",
      bits_stored |-> "BitsStored", high_bit |-> "HighBit",
      pixel_spacing |-> "PixelSpacing",
      photometric_interpretation |-> "PhotometricInterpretation",
      samples_per_pixel |-> "SamplesPerPixel", window_center |-> "WindowCenter",
      window_width |-> "WindowWidth", rescale_intercept |-> "RescaleIntercept",
      rescale_slope |-> "RescaleSlope", manufacturer |-> "Manufacturer",
      manufacturer_model_name |-> "ManufacturerModelName",
      station_name |-> "StationName", institution_name |-> "InstitutionName",
      magnetic_field_strength |-> "MagneticFieldStrength",
      sequence_name |-> "SequenceName", scanning_sequence |-> "ScanningSequence",
      repetition_time |-> "RepetitionTime", echo_time |-> "EchoTime",
      inversion_time |-> "InversionTime", flip_angle |-> "FlipAngle" ]

\* The fields the record holds as numbers.
NumericFields ==
    {"slice_location", "slice_thickness", "rescale_slope", "rescale_intercept",
     "magnetic_field_strength", "repetition_time", "echo_time", "inversion_time",
     "flip_angle", "window_center", "window_width"}

\* The fields that are the element as safe_get returns it.
PlainFields ==
    DOMAIN FieldTag \ {"patient_name", "image_position_patient",
                       "image_orientation_patient", "pixel_spacing", "scanning_sequence",
                       "window_center", "window_width"}

\* The element holds more than one value.
ManyValued(value) == IsMultiValue(value) /\ Len(value[2]) > 1

\* C13: every attribute that is absent from the parsed tags is an absent value
\* (None) in the metadata record, never zero, an empty string or a sentinel;
\* this holds for every field, patient name, image position, image
\* orientation, pixel spacing and scanning sequence included.
C13_AbsentStaysAbsent ==
    (ephase = "done" /\ ~IsRaised(extracted)) =>
        \A f \in DOMAIN FieldTag :
            Val(tags)[FieldTag[f]] = <<>> => Val(extracted)[f] = None

\* C14: a window center or window width with more than one value is stored as
\* its first value and the dataset is extracted normally.
C14_FirstWindowValue ==
    LET wc == Val(tags).WindowCenter
        ww == Val(tags).WindowWidth
    IN (ephase = "done" /\ (ManyValued(wc) \/ ManyValued(ww))) =>
        /\ ~IsRaised(extracted)
        /\ ManyValued(wc) => Val(extracted).window_center = Some(wc[2][1])
        /\ ManyValued(ww) => Val(extracted).window_width = Some(ww[2][1])

\* C15: extract_metadata never raises, and each numeric field of the record is
\* a number or absent, never a string.
C15_NumericOrAbsent ==
    ephase = "done" =>
        /\ ~IsRaised(extracted)
        /\ \A f \in NumericFields : ~IsStrOfList(Val(extracted)[f])

\* C16: safe_get turns a multi-valued element with no value into an absent
\* value, one with a single value into that value, and one with more values
\* into a composite string that holds every value in order.
C16_SafeGetUnwraps ==
    (ephase = "done" /\ ~IsRaised(extracted)) =>
        \A f \in PlainFields :
            LET value == Val(tags)[FieldTag[f]]
                got == Val(extracted)[f]
            IN IsMultiValue(value) =>
                IF Len(value[2]) = 0 THEN got = None
                ELSE IF Len(value[2]) = 1 THEN got = Some(value[2][1])
                ELSE IsStrOfList(got) /\ got[2] = value[2]

----------------------------------------------------------------------------
(* Claims about the traversal of export_all_dicoms (checked under Spec)    *)

\* The item whose handling a step begins: the one walked counts once more.
Yielded(it) ==
    /\ ItemName(it) \in DOMAIN walked'
    /\ ItemName(it) \notin DOMAIN walked \/ walked'[ItemName(it)] # walked[ItemName(it)]

\* The parts of an entry's path, the scan root's name first.
PathParts(f) == <<Txt_scans>> \o f.rel

\* The name of the directory an entry lies in.
ImmediateParent(f) == PathParts(f)[Len(PathParts(f)) - 1]

\* The row of the file being handled, once written, carries its label.
RowCarriesLabel ==
    (pc = "upsert" /\ pc' = "loop") =>
        \E r \in db' : /\ r.md.source_path = Val(cur).path
                       /\ r.md.study_folder = Val(cur).study_folder

\* The label as the claim states it.
LabelAsStated ==
    \A it \in WalkItems :
        (Yielded(it) /\ pc' = "read") =>
            Val(cur').study_folder =
                (IF it.kind = "file" THEN ImmediateParent(it.f)
                 ELSE IF opts.group_by_top_level_folder THEN it.f.rel[1]
                 ELSE ImmediateParent(it.f))

\* The label as the code derives it.
LabelByScanRoot ==
    \A it \in WalkItems :
        (Yielded(it) /\ pc' = "read") =>
            Val(cur').study_folder =
                (IF it.kind = "file" THEN ImmediateParent(it.f)
                 ELSE IF opts.group_by_top_level_folder /\ Len(it.f.rel) > 1
                      THEN it.f.rel[1]
                 ELSE Txt_scans)

EndsWithNoCase(nm, ext) ==
    /\ Len(nm) > Len(ext)
    /\ \A k \in 1..Len(ext) :
        LET c == nm[Len(nm) - Len(ext) + k]
        IN c = ext[k] \/ \E i \in 1..26 : LowerChars[i] = ext[k] /\ UpperChars[i] = c

\* The name has no extension: no dot after its first character that is
\* followed by something.
NoExtension(nm) == \A k \in 2..(Len(nm) - 1) : nm[k] # "."

\* The filter as the claim words it.
Wanted(f) ==
    \/ opts.scan_all_files
    \/ \E ext \in {<<".","d","c","m">>, <<".","d","i","c","o","m">>, <<".","i","m","a">>} :
        EndsWithNoCase(f.rel[Len(f.rel)], ext)
    \/ NoExtension(f.rel[Len(f.rel)]) /\ f.magic

\* A counted candidate goes on to process_dicom_file exactly when it is wanted;
\* otherwise it is counted as skipped and the run turns to the next entry.
FilterStep ==
    \A it \in WalkItems :
        (Yielded(it) /\ stats'.total_files = stats.total_files + 1) =>
            IF Wanted(it.f)
            THEN /\ pc' = "read" /\ Val(cur').path = it.f.path
                 /\ stats'.skipped = stats.skipped
            ELSE /\ pc' = "loop" /\ cur' = None
                 /\ stats'.skipped = stats.skipped + 1
                 /\ stats'.processed = stats.processed /\ stats'.failed = stats.failed
                 /\ db' = db /\ disk' = disk

\* Only wanted files are ever read, rendered or written to the catalog.
OnlyWantedHandled ==
    /\ cur' # None => \E e \in Entries : e.path = Val(cur').path /\ Wanted(e)
    /\ \A r \in db' : \E e \in Entries : e.path = r.md.source_path /\ Wanted(e)
    /\ \A x \in disk' : \E e \in Entries : e.path = x.src /\ Wanted(e)

\* C18: a counted candidate is passed to process_dicom_file exactly when
\* scan-all-files is on, or its lower-cased extension is .dcm, .dicom or .ima,
\* or it has no extension and its leading bytes carry the format's signature;
\* every other candidate is counted as skipped and never read, rendered or
\* written to the catalog.
C18_CandidateFilter == [][FilterStep]_vars /\ [][OnlyWantedHandled]_vars

\* With scan-all-files off, an extensionless file without the signature was
\* counted and skipped, and an extensionless file with the signature was
\* processed.
C18_Witness ==
    /\ ~opts.scan_all_files
    /\ stats.skipped = 1
    /\ stats.total_files = 2
    /\ <<"dir", "scans/s1/raw">> \in DOMAIN walked
    /\ \E r \in db : r.md.source_path = "scans/s1/sub/b"

\* Some component of the entry's path below the scan root starts with a dot.
HiddenBelowRoot(f) == \E k \in 1..Len(f.rel) : Len(f.rel[k]) > 0 /\ Head(f.rel[k]) = "."

\* The entry is a file with the .zip extension.
ZipArchive(f) == EndsWithNoCase(f.rel[Len(f.rel)], <<".","z","i","p">>)

\* When the scan yields a hidden file or a zip archive, nothing but the
\* position of the scan changes.
HiddenAndZipPassedOver ==
    \A it \in WalkItems :
        (Yielded(it) /\ it.kind = "dir" /\ it.f.isfile
         /\ (HiddenBelowRoot(it.f) \/ ZipArchive(it.f))) =>
            /\ stats' = stats /\ db' = db /\ disk' = disk
            /\ pc' = "loop" /\ cur' = None /\ ds' = None /\ metadata' = None

\* C19: during a recursive directory scan a file with a path component below
\* the scan root that starts with '.', and a file with the .zip extension, are
\* ignored whatever the scan-all-files setting: they are not counted as
\* candidates, skipped, processed or failed, and get no catalog row or image.
C19_HiddenAndZipIgnored == [][HiddenAndZipPassedOver]_vars

\* With scan-all-files on, a scan met a hidden file and a zip archive and
\* ended with all counters at zero and an empty catalog.
C19_Witness ==
    /\ pc = "done"
    /\ opts.scan_all_files
    /\ <<"dir", "scans/.cache/h.dcm">> \in DOMAIN walked
    /\ <<"dir", "scans/s1/z.ZIP">> \in DOMAIN walked
    /\ stats.total_files = 0 /\ stats.skipped = 0 /\ stats.processed = 0
    /\ stats.failed = 0
    /\ db = {} /\ disk = {}

\* The UIDs of the files ingested without a failure.
UidsOfIngested(field) ==
    {Val(lastOk[q][field]) : q \in {x \in DOMAIN lastOk : lastOk[x][field] # None}}

\* C20: when the processing of a file fails, its study UID and series UID are
\* not added to the distinct-study and distinct-series sets: between two
\* files the sets hold the UIDs of the files that did not fail, and the
\* counts reported at the end of the run are the sizes of those sets.
C20_FailureLeavesUidSets ==
    /\ pc = "loop" =>
        /\ stats.studies = UidsOfIngested("study_instance_uid")
        /\ stats.series = UidsOfIngested("series_instance_uid")
    /\ pc = "done" =>
        /\ stats.studies = Cardinality(UidsOfIngested("study_instance_uid"))
        /\ stats.series = Cardinality(UidsOfIngested("series_instance_uid"))

----------------------------------------------------------------------------
(* Claims about colliding image paths and the order of a run (under Spec)  *)

\* A render that succeeds leaves, at the exported path, the one raster file of
\* the file being handled, whatever was there before, and goes on to the
\* catalog write without touching a counter.
SilentOverwrite ==
    (pc = "render" /\ rendered' = Some(TRUE)) =>
        /\ pc' = "upsert"
        /\ stats' = stats
        /\ Val(metadata').exported_jpeg_path # None
        /\ \E x \in disk' :
            /\ x.path = Val(Val(metadata').exported_jpeg_path)
            /\ x.src = Val(cur).path
            /\ \A y \in disk' : y.path = x.path => y = x

\* The catalog write of one file leaves the rows of all other source paths in
\* place, also those with the same exported image path.
OtherRowsStay ==
    (pc = "upsert" /\ pc' = "loop") =>
        /\ \A r \in db : r.md.source_path # Val(cur).path => r \in db'
        /\ \E r \in db' : r.md.source_path = Val(cur).path /\ r.md = Val(metadata)
        /\ stats'.failed = stats.failed

\* C21: when two distinct source files share study directory, series
\* directory, instance number and rounded slice location, ingesting both
\* leaves two rows, one per source path, with equal exported image paths; the
\* raster file at that path is the render of the file handled last, and the
\* overwrite raises no error and no failure count.
C21_SilentOverwrite == [][SilentOverwrite]_vars /\ [][OtherRowsStay]_vars

\* Two files with the same planned path were both ingested without a failure:
\* two rows with one exported path, and the raster file there is the render of
\* the file whose row is the newer one.
C21_Witness ==
    /\ pc = "done"
    /\ stats.processed = 2 /\ stats.failed = 0
    /\ \E r1, r2 \in db :
        /\ r1.md.source_path # r2.md.source_path
        /\ r1.md.exported_jpeg_path # None
        /\ r1.md.exported_jpeg_path = r2.md.exported_jpeg_path
        /\ r1.id < r2.id
        /\ \A x \in disk :
            x.path = Val(r1.md.exported_jpeg_path) => x.src = r2.md.source_path
        /\ \E x \in disk : x.path = Val(r1.md.exported_jpeg_path)

\* The order in which a run moves from step to step.
StepOrder ==
    <<pc, pc'>> \in
        {<<"loop", "loop">>, <<"loop", "read">>, <<"read", "extract">>,
         <<"extract", "plan">>, <<"plan", "render">>, <<"render", "upsert">>,
         <<"upsert", "loop">>,
         <<"read", "except">>, <<"extract", "except">>, <<"plan", "except">>,
         <<"upsert", "except">>, <<"except", "loop">>,
         <<"loop", "done">>, <<"loop", "aborted">>, <<"read", "aborted">>}

\* While a file is being handled, the traversal yields no further entry and
\* the file in hand stays the same.
OneFileAtATime ==
    (pc \notin {"loop", "done", "aborted"} /\ pc' # "loop") =>
        /\ walked' = walked /\ remaining' = remaining
        /\ pc' # "aborted" => cur' = cur

\* A file leaves the handling either with its row in the table or counted as
\* failed.
FileEndsCommittedOrFailed ==
    (pc # "loop" /\ pc' = "loop") =>
        \/ /\ pc = "upsert"
           /\ \E r \in db' : r.md = Val(metadata)
           /\ stats'.processed = stats.processed + 1
        \/ /\ pc = "except"
           /\ db' = db
           /\ stats'.failed = stats.failed + 1

\* When the next file is read, every file counted before it has been skipped,
\* has failed, or has its row in the table.
EarlierFilesSettled ==
    pc' = "read" =>
        /\ stats'.total_files = stats'.processed + stats'.failed + stats'.skipped + 1
        /\ \A q \in DOMAIN lastOk' : \E r \in db' : r.md = lastOk'[q]

C23_ConnectionReleased ==
    /\ pc \in {"done", "aborted"} => conn = "closed"
    /\ pc \notin {"done", "aborted"} => conn = "open"

\* The planned filename of the same record at slice location e/8.
PlannedAt(e) == PlanImgFilename([planIn EXCEPT !.slice_location = Some(e)])

\* C27: the file written for an instance, which is also the path recorded in
\* its row, is the planned path with .png appended and nothing of the planned
\* filename removed, so two instances whose planned filenames differ (the
\* same instance number at two slice locations) are never written to the
\* same file.
C27_PngAppended ==
    pphase = "done" =>
        /\ Val(output_path)[3] = Val(img_filename) \o <<".","p","n","g">>
        /\ \A e \in (0 - MaxSliceEighths)..MaxSliceEighths :
               PlannedAt(e) # Val(img_filename)
                   => WithSuffixPng(PlannedAt(e)) # Val(output_path)[3]

\* C28: sanitize_filename is idempotent and its result is a usable name:
\* sanitizing the result again gives the result, and the result is non-empty,
\* at most 50 characters long, holds none of the nine replaced characters and
\* neither starts nor ends with whitespace.
C28_IdempotentUsable ==
    sphase = "done" =>
        LET out == Val(sanitized)
        IN /\ sanitize_filename(Some(out)) = out
           /\ out # <<>>
           /\ Len(out) <= 50
           /\ \A k \in 1..Len(out) :
                  out[k] \notin {"/", "\\", ":", "*", "?", "\"", "<", ">", "|"}
           /\ out[1] \notin {" ", "\t", "\n"}
           /\ out[Len(out)] \notin {" ", "\t", "\n"}

\* A successful ingestion gives the row of the file an id above every id of the
\* table and at or above the sequence's mark; a re-ingestion keeps the number of
\* rows and changes the id of the path's row.
KeyGrows ==
    (pc = "upsert" /\ pc' = "loop") =>
        \E r \in db' :
            /\ r.md.source_path = Val(cur).path
            /\ nextId <= r.id
            /\ \A o \in db : o.id < r.id
            /\ \A o \in db : o.md.source_path = Val(cur).path =>
                   /\ Cardinality(db') = Cardinality(db)
                   /\ o.id # r.id

\* The sequence's mark stays above every id of the table and never goes down.
KeysBelowMark ==
    /\ \A r \in db' : r.id < nextId'
    /\ nextId <= nextId'
    /\ \A r1, r2 \in db' : r1.id = r2.id => r1 = r2

\* C29: ids of dicom_images are never reused and grow: each successful
\* ingestion, a re-ingestion that replaces the row of a known path included,
\* gives the row an id greater than every id assigned before, so the id of a
\* path's row changes across re-ingestion while the number of rows stays.
C29_KeysNeverReused == [][KeyGrows]_vars /\ [][KeysBelowMark]_vars

\* One path was ingested twice: one row is left, and its id is the second one.
C29_Witness ==
    /\ pc = "loop"
    /\ stats.processed = 2
    /\ Cardinality(DOMAIN lastOk) = 1
    /\ \E r \in db : r.id = 2 /\ db = {r}

----------------------------------------------------------------------------
(* The query service of main.py: the reading endpoints                     *)

\* The study UIDs of the model, in ascending text order (the order of
\* idx_study_uid).
StudyUids == <<"1.2.840.1", "1.2.840.2">>

\* hashlib.md5(uid.encode()).hexdigest()[:12] of these UIDs.
Md5Hex12 == ("1.2.840.1" :> "9315740666fa") @@ ("1.2.840.2" :> "ce446d28ebea")

\* generate_study_id: None has no encode(), the call raises AttributeError.
generate_study_id(study_uid) ==
    IF study_uid = None THEN Raised("AttributeError")
    ELSE Some(Md5Hex12[Val(study_uid)])

\* Line 197, SELECT DISTINCT study_instance_uid FROM dicom_images: SQLite scans
\* the covering index idx_study_uid, NULL first and the UIDs ascending.
DistinctStudyUids(rows) ==
    LET present(u) == \E k \in 1..Len(rows) : rows[k].study_instance_uid = u
        uids == SelectSeq(StudyUids, LAMBDA u : present(Some(u)))
    IN (IF present(None) THEN <<None>> ELSE <<>>) \o [k \in 1..Len(uids) |-> Some(uids[k])]

RECURSIVE FindStudyUid(_, _, _)
\* Lines 198-202: the loop over the distinct UIDs; the result is the UID found,
\* None when the loop ends without a match, or the error generate_study_id raised.
FindStudyUid(uids, k, study_id) ==
    IF k > Len(uids) THEN None
    ELSE LET h == generate_study_id(uids[k])
         IN IF IsRaised(h) THEN h
            ELSE IF Val(h) = study_id THEN uids[k]
            ELSE FindStudyUid(uids, k + 1, study_id)

\* NULL sorts before every value in an ascending ORDER BY; the numbers of the
\* model are not negative.
NullsFirst(o) == IF o = None THEN 0 - 1 ELSE Val(o)

\* ORDER BY instance_number, slice_location: rows that tie come out in the
\* order of the scan, which is by rowid.
RowBefore(rows, a, b) ==
    LET ia == NullsFirst(rows[a].instance_number)
        ib == NullsFirst(rows[b].instance_number)
        sa == NullsFirst(rows[a].slice_location)
        sb == NullsFirst(rows[b].slice_location)
    IN \/ ia < ib
       \/ ia = ib /\ sa < sb
       \/ ia = ib /\ sa = sb /\ a < b

RECURSIVE OrderBy(_, _)
\* The rowids of S in the order of the query.
OrderBy(rows, S) ==
    IF S = {} THEN <<>>
    ELSE LET first == CHOOSE a \in S : \A b \in S \ {a} : RowBefore(rows, a, b)
         IN <<first>> \o OrderBy(rows, S \ {first})

\* WHERE series_instance_uid = ? AND exported_jpeg_path IS NOT NULL
\* ORDER BY instance_number, slice_location (lines 322-331, 363-369, 395-401
\* and 629-638).
SeriesInstances(rows, series_uid) ==
    OrderBy(rows, {k \in 1..Len(rows) :
                      /\ rows[k].series_instance_uid = Some(series_uid)
                      /\ rows[k].exported_jpeg_path # None})

\* The same with the study UID in the WHERE clause (lines 248-258).
StudySeriesInstances(rows, study_uid, series_uid) ==
    OrderBy(rows, {k \in 1..Len(rows) :
                      /\ rows[k].study_instance_uid = Some(study_uid)
                      /\ rows[k].series_instance_uid = Some(series_uid)
                      /\ rows[k].exported_jpeg_path # None})

\* One entry of an instances list (lines 334-340).
InstanceEntry(rows, k) ==
    [id |-> k, instance_number |-> rows[k].instance_number,
     slice_location |-> rows[k].slice_location,
     file_path |-> Val(rows[k].exported_jpeg_path)]

InstanceList(rows, ids) == [i \in 1..Len(ids) |-> InstanceEntry(rows, ids[i])]

\* The series UIDs of the model, and the series of a study that have images
\* (GROUP BY series_instance_uid of lines 227-241).
SeriesUids == <<"S1">>

SeriesOfStudy(rows, study_uid) ==
    SelectSeq(SeriesUids,
              LAMBDA su : StudySeriesInstances(rows, study_uid, su) # <<>>)

Error(code, detail) == [status |-> code, body |-> [detail |-> detail]]
Ok(body) == [status |-> 200, body |-> body]

\* GET /api/studies/{study_id}
get_study(rows, study_id) ==
    LET study_uid == FindStudyUid(DistinctStudyUids(rows), 1, study_id)
    IN IF IsRaised(study_uid) THEN Error(500, study_uid[2])
       ELSE IF study_uid = None THEN Error(404, "Study not found")
       ELSE LET series == SeriesOfStudy(rows, Val(study_uid))
            IN Ok([study_id |-> study_id,
                   study_instance_uid |-> Val(study_uid),
                   series |-> [i \in 1..Len(series) |->
                                  [series_uid |-> series[i],
                                   instances |-> InstanceList(rows,
                                       StudySeriesInstances(rows, Val(study_uid),
                                                            series[i]))]]])

\* GET /api/studies/{study_id}/series/{series_uid}; study_id is not used.
get_series(rows, series_uid) ==
    IF ~\E k \in 1..Len(rows) : rows[k].series_instance_uid = Some(series_uid)
    THEN Error(404, "Series not found")
    ELSE LET instances == InstanceList(rows, SeriesInstances(rows, series_uid))
         IN Ok([series_uid |-> series_uid, instance_count |-> Len(instances),
                instances |-> instances])

\* _get_exported_image_path, and the same lines of get_image: the path of the
\* file, or the 404 raised.
exported_image_path(rows, files, series_uid, instance_index) ==
    LET instances == SeriesInstances(rows, series_uid)
    IN IF instances = <<>> \/ instance_index < 0 \/ instance_index >= Len(instances)
       THEN Error(404, "Image not found")
       ELSE LET image_path == Val(rows[instances[instance_index + 1]].exported_jpeg_path)
            IN IF image_path \notin files THEN Error(404, "Image file not found")
               ELSE Ok([file |-> image_path])

\* GET /api/image/{study_id}/{series_uid}/{instance_index}
get_image(rows, files, series_uid, instance_index) ==
    exported_image_path(rows, files, series_uid, instance_index)

\* GET /api/image-metadata/{study_id}/{series_uid}/{instance_index}
get_image_metadata(rows, series_uid, instance_index) ==
    LET instances == SeriesInstances(rows, series_uid)
    IN IF instances = <<>> \/ instance_index < 0 \/ instance_index >= Len(instances)
       THEN Error(404, "Image not found")
       ELSE LET row == rows[instances[instance_index + 1]]
            IN Ok([series_uid |-> Val(row.series_instance_uid),
                   instance_number |-> row.instance_number,
                   slice_location |-> row.slice_location])

\* GET /api/studies: the studies with a UID that have images.
get_studies(rows) ==
    LET uids == SelectSeq(StudyUids,
                    LAMBDA u : SeriesOfStudy(rows, u) # <<>>)
    IN Ok([i \in 1..Len(uids) |->
              [study_id |-> Val(generate_study_id(Some(uids[i]))),
               study_instance_uid |-> uids[i],
               series |-> SeriesOfStudy(rows, uids[i])]])

\* GET /api/stats; COUNT(DISTINCT ...) does not count NULL.
get_stats(rows) ==
    LET ks == 1..Len(rows)
    IN Ok([total_images |-> Len(rows),
           exported_images |-> Cardinality({k \in ks : rows[k].exported_jpeg_path # None}),
           total_studies |->
               Cardinality({rows[k].study_instance_uid : k \in ks} \ {None}),
           total_series |->
               Cardinality({rows[k].series_instance_uid : k \in ks} \ {None})])

\* GET /api/comparison-data; every row of the model carries a study date.  The
\* default of study_id_by_uid.get (line 537) is computed for every group, so a
\* group without study UID raises.
get_comparison_data(rows) ==
    LET groups == {<<rows[k].study_instance_uid, rows[k].series_instance_uid>> :
                      k \in {j \in 1..Len(rows) : rows[j].exported_jpeg_path # None}}
    IN IF \E g \in groups : g[1] = None THEN Error(500, "AttributeError")
       ELSE Ok([series_map |-> groups])

\* GET /api/panel-settings/{combo_id}
get_panel_settings(table, combo_id) ==
    Ok([combo_id |-> combo_id, settings |-> {r \in table : r.combo_id = combo_id}])

\* POST /api/nano-banana-pro/acp-annotate.  series_uid is None for a body
\* without a usable one; supplied tells whether the body carries the image;
\* upstream is what the two model calls come to.
acp_annotate(rows, files, series_uid, instance_index, supplied, upstream) ==
    IF series_uid = None THEN Error(400, "Missing field: series_uid")
    ELSE LET found == IF supplied THEN Ok([file |-> <<"image_base64">>])
                      ELSE exported_image_path(rows, files, Val(series_uid),
                                               instance_index)
         IN IF found.status # 200 THEN found
            ELSE IF ~upstream THEN Error(502, "Gemini analysis error")
            ELSE Ok([annotated |-> found.body.file])

----------------------------------------------------------------------------
(* Specification SpecService: the reading endpoints over a catalog         *)

\* The most rows the catalog holds.
MaxRows == 2

\* The exported image path of the row with rowid k.
PathOf(k) == <<"exported_images", k>>

\* The columns of a row the endpoints read, but for the image path.
RowShapes ==
    [study_instance_uid : {None, Some("1.2.840.1")},
     series_instance_uid : {Some("S1")},
     sort_key : {<<None, Some(4)>>, <<Some(1), None>>},
     exported : BOOLEAN]

\* The row of rowid k of a shape.
RowOf(k, sh) ==
    [study_instance_uid |-> sh.study_instance_uid,
     series_instance_uid |-> sh.series_instance_uid,
     instance_number |-> sh.sort_key[1],
     slice_location |-> sh.sort_key[2],
     exported_jpeg_path |-> IF sh.exported THEN Some(PathOf(k)) ELSE None]

\* The catalogs: up to MaxRows rows in rowid order.
Catalogs ==
    UNION {{[k \in 1..n |-> RowOf(k, f[k])] : f \in [1..n -> RowShapes]} : n \in 0..MaxRows}

\* What the requests of the model ask for.
StudyIdsAsked == {"9315740666fa", "ce446d28ebea", "000000000000"}
SeriesAsked == {"S1", "S9"}
IndexesAsked == (0 - 1)..MaxRows

DefaultSettings ==
    [offset |-> 0, zoom |-> 1, rotation |-> 0, brightness |-> 100, contrast |-> 100,
     pan_x |-> 0, pan_y |-> 0]

\* The exported files that exist: those of all rows, or all but one.
FileSets(rows) ==
    LET all == {PathOf(k) : k \in 1..Len(rows)}
    IN {all} \cup {all \ {f} : f \in all}

\* Before the first request.
NoRequest == [endpoint |-> "none"]
NoResponse == [status |-> 0, body |-> [detail |-> "none"]]

InitService ==
    /\ dicom_images \in Catalogs
    /\ image_files \in FileSets(dicom_images)
    /\ panel_settings =
           {[combo_id |-> "axial-t2", date_iso |-> "2024-09-23", progress |-> None]
            @@ DefaultSettings}
    /\ request = NoRequest /\ response = NoResponse /\ posted = {}
    /\ RunIdle /\ ClassIdle /\ PlanIdle /\ SanIdle /\ RenderIdle /\ ExtractIdle

\* What every endpoint but POST /api/panel-settings leaves alone.
stored == <<dicom_images, image_files, panel_settings>>

Root ==
    /\ request' = [endpoint |-> "root"]
    /\ response' = Ok([message |-> "MiraViewer API"])
    /\ UNCHANGED <<stored, posted, exportVars>>

GetStudies ==
    /\ request' = [endpoint |-> "get_studies"]
    /\ response' = get_studies(dicom_images)
    /\ UNCHANGED <<stored, posted, exportVars>>

GetStudy ==
    \E study_id \in StudyIdsAsked :
        /\ request' = [endpoint |-> "get_study", study_id |-> study_id]
        /\ response' = get_study(dicom_images, study_id)
        /\ UNCHANGED <<stored, posted, exportVars>>

GetSeries ==
    \E series_uid \in SeriesAsked :
        /\ request' = [endpoint |-> "get_series", series_uid |-> series_uid]
        /\ response' = get_series(dicom_images, series_uid)
        /\ UNCHANGED <<stored, posted, exportVars>>

GetImage ==
    \E series_uid \in SeriesAsked, i \in IndexesAsked :
        /\ request' = [endpoint |-> "get_image", series_uid |-> series_uid,
                       instance_index |-> i]
        /\ response' = get_image(dicom_images, image_files, series_uid, i)
        /\ UNCHANGED <<stored, posted, exportVars>>

GetImageMetadata ==
    \E series_uid \in SeriesAsked, i \in IndexesAsked :
        /\ request' = [endpoint |-> "get_image_metadata", series_uid |-> series_uid,
                       instance_index |-> i]
        /\ response' = get_image_metadata(dicom_images, series_uid, i)
        /\ UNCHANGED <<stored, posted, exportVars>>

GetComparisonData ==
    /\ request' = [endpoint |-> "get_comparison_data"]
    /\ response' = get_comparison_data(dicom_images)
    /\ UNCHANGED <<stored, posted, exportVars>>

GetPanelSettings ==
    \E combo_id \in {"axial-t2", "sagittal-t1"} :
        /\ request' = [endpoint |-> "get_panel_settings", combo_id |-> combo_id]
        /\ response' = get_panel_settings(panel_settings, combo_id)
        /\ UNCHANGED <<stored, posted, exportVars>>

\* An annotate endpoint that keeps the annotated image next to the exported ones.
AcpAnnotate_Persists ==
    \E series_uid \in {None, Some("S1")}, i \in {0, MaxRows},
       supplied \in BOOLEAN, upstream \in BOOLEAN :
        LET r == acp_annotate(dicom_images, image_files, series_uid, i, supplied, upstream)
        IN /\ request' = [endpoint |-> "nano_banana_pro_acp_annotate",
                          series_uid |-> series_uid, instance_index |-> i,
                          supplied |-> supplied]
           /\ response' = r
           /\ image_files' = IF r.status = 200
                             THEN image_files \cup {<<"annotated", i>>}
                             ELSE image_files
           /\ UNCHANGED <<dicom_images, panel_settings, posted, exportVars>>

AcpAnnotate ==
    \E series_uid \in {None, Some("S1")}, i \in {0, MaxRows},
       supplied \in BOOLEAN, upstream \in BOOLEAN :
        /\ request' = [endpoint |-> "nano_banana_pro_acp_annotate",
                       series_uid |-> series_uid, instance_index |-> i,
                       supplied |-> supplied]
        /\ response' = acp_annotate(dicom_images, image_files, series_uid, i, supplied,
                                    upstream)
        /\ UNCHANGED <<stored, posted, exportVars>>

GetStats ==
    /\ request' = [endpoint |-> "get_stats"]
    /\ response' = get_stats(dicom_images)
    /\ UNCHANGED <<stored, posted, exportVars>>

NextService ==
    \/ Root \/ GetStudies \/ GetStudy \/ GetSeries \/ GetImage \/ GetImageMetadata
    \/ GetComparisonData \/ GetPanelSettings \/ AcpAnnotate \/ GetStats

SpecService == InitService /\ [][NextService]_vars

\* The study UIDs the catalog stores whose hash is the id asked for.
StudiesHashingTo(study_id) ==
    {u \in {Val(dicom_images[k].study_instance_uid) :
               k \in {j \in 1..Len(dicom_images) :
                         dicom_images[j].study_instance_uid # None}} :
        Md5Hex12[u] = study_id}

\* C24: GET /api/studies/{study_id} answers 404 'Study not found' for every
\* study_id that is not the hash of a study UID the catalog stores, whatever
\* the catalog holds (rows without study UID included), and otherwise answers
\* with the study whose UID hashes to study_id; it never fails otherwise.
C24_StudyOr404 ==
    request.endpoint = "get_study" =>
        IF StudiesHashingTo(request.study_id) = {}
        THEN response = Error(404, "Study not found")
        ELSE /\ response.status = 200
             /\ response.body.study_instance_uid \in StudiesHashingTo(request.study_id)

\* No step changes the two tables or the exported image files.
StoredUntouched == stored' = stored

\* C25: every endpoint other than POST /api/panel-settings, the GET endpoints
\* and POST /api/nano-banana-pro/acp-annotate included, leaves table
\* dicom_images, table panel_settings and the exported image files as they
\* were, when it succeeds and when it fails.
C25_ReadLayer == [][StoredUntouched]_vars

\* The annotate endpoint answered with an annotated image of an exported file,
\* after which the catalog, the settings and the files are still there.
C25_Witness ==
    /\ request.endpoint = "nano_banana_pro_acp_annotate"
    /\ ~request.supplied
    /\ response.status = 200
    /\ response.body.annotated \in image_files
    /\ Len(dicom_images) = 2
    /\ panel_settings # {}

\* C30: instance indexes mean the same in all endpoints: entry i of the
\* instances list of GET .../series/{series_uid} has the file_path of the file
\* GET /api/image serves for i and GET /api/image-metadata describes for i,
\* rows with equal instance number and slice location included; and the image
\* endpoints answer 404 exactly when i < 0, i is at least the number of rows
\* of the series with an image path, or the file is missing.
C30_IndexesAgree ==
    request.endpoint \in {"get_image", "get_image_metadata"} =>
        LET i == request.instance_index
            n == Cardinality({k \in 1..Len(dicom_images) :
                     /\ dicom_images[k].series_instance_uid = Some(request.series_uid)
                     /\ dicom_images[k].exported_jpeg_path # None})
            listed == get_series(dicom_images, request.series_uid)
            out == i < 0 \/ i >= n
        IN /\ response.status \in {200, 404}
           /\ response.status = 404 <=>
                  (out \/ listed.body.instances[i + 1].file_path \notin image_files)
           /\ response.status = 200 =>
                  LET entry == listed.body.instances[i + 1]
                  IN IF request.endpoint = "get_image"
                     THEN response.body.file = entry.file_path
                     ELSE /\ response.body.instance_number = entry.instance_number
                          /\ response.body.slice_location = entry.slice_location

----------------------------------------------------------------------------
(* Specification SpecSettings: POST /api/panel-settings                    *)

\* The values of a JSON body, and what stands for a key the body lacks.
Absent == <<>>
JNull == <<"null">>
JNum(n) == <<"num", n>>
JStr(t) == <<"str", t>>

IsText(v) == Len(v) = 2 /\ v[1] = "str"

\* payload.get(k, default)
PayloadGet(payload, k, default) ==
    IF payload[k] = Absent THEN JNum(default) ELSE payload[k]

\* int(v) and float(v): the number, a TypeError for null, a ValueError for a
\* text (the texts of the model are no numerals; its numbers are whole).
Number(v) ==
    IF v[1] = "num" THEN Some(v[2])
    ELSE IF v = JNull THEN Raised("TypeError")
    ELSE Raised("ValueError")

\* The settings columns in the order they are converted (lines 594-600), and
\* the body key of each.
SettingColumns ==
    <<"offset", "zoom", "rotation", "brightness", "contrast", "pan_x", "pan_y">>
PayloadKeys ==
    <<"offset", "zoom", "rotation", "brightness", "contrast", "panX", "panY">>

\* Lines 601-602: progress_val, None for a body without progress or with null.
ProgressVal(payload) ==
    IF payload.progress \in {Absent, JNull} THEN Some(None)
    ELSE LET f == Number(payload.progress)
         IN IF IsRaised(f) THEN f ELSE Some(f)

\* upsert_panel_settings: the response and the table afterwards.
upsert_panel_settings(table, payload) ==
    IF payload.combo_id = Absent
    THEN [response |-> Error(400, "Missing field: combo_id"), table |-> table]
    ELSE IF payload.date_iso = Absent
    THEN [response |-> Error(400, "Missing field: date_iso"), table |-> table]
    ELSE
    LET conv == [i \in 1..7 |->
                    Number(PayloadGet(payload, PayloadKeys[i],
                                      DefaultSettings[SettingColumns[i]]))]
        failed == {i \in 1..7 : IsRaised(conv[i])}
        progress_val == ProgressVal(payload)
    IN IF failed # {}
       THEN [response |-> Error(500, conv[CHOOSE i \in failed :
                                             \A j \in failed : i <= j][2]),
             table |-> table]
       ELSE IF IsRaised(progress_val)
       THEN [response |-> Error(500, progress_val[2]), table |-> table]
       \* NOT NULL of combo_id and date_iso
       ELSE IF payload.combo_id = JNull \/ payload.date_iso = JNull
       THEN [response |-> Error(500, "IntegrityError"), table |-> table]
       ELSE
       LET old == {r \in table : /\ r.combo_id = payload.combo_id[2]
                                 /\ r.date_iso = payload.date_iso[2]}
           \* COALESCE(excluded.progress, panel_settings.progress)
           progress == IF Val(progress_val) # None THEN Val(progress_val)
                       ELSE IF old # {} THEN (CHOOSE r \in old : TRUE).progress
                       ELSE None
           row == [combo_id |-> payload.combo_id[2], date_iso |-> payload.date_iso[2],
                   offset |-> Val(conv[1]), zoom |-> Val(conv[2]),
                   rotation |-> Val(conv[3]), brightness |-> Val(conv[4]),
                   contrast |-> Val(conv[5]), pan_x |-> Val(conv[6]),
                   pan_y |-> Val(conv[7]), progress |-> progress]
       IN [response |-> Ok([status |-> "ok"]), table |-> (table \ old) \cup {row}]

\* The bodies of the model: the two keys, at most one of the seven settings
\* (a number, or a null offset, or a zoom that is no number), or progress.
NoSettings == [k \in {PayloadKeys[i] : i \in 1..7} |-> Absent]

SentValue ==
    [offset |-> 5, zoom |-> 2, rotation |-> 90, brightness |-> 120, contrast |-> 80,
     panX |-> 3, panY |-> 4]

SettingChoices ==
    {NoSettings}
    \cup {[NoSettings EXCEPT ![k] = JNum(SentValue[k])] : k \in DOMAIN NoSettings}
    \cup {[NoSettings EXCEPT !["offset"] = JNull],
          [NoSettings EXCEPT !["zoom"] = JStr("abc")]}

\* A setting together with no progress, or progress (absent, null or a number)
\* together with no setting.
SettingsAndProgress ==
    {<<st, p>> \in SettingChoices \X {Absent, JNull, JNum(7)} :
        st = NoSettings \/ p = Absent}

Payloads ==
    {[combo_id |-> c, date_iso |-> d, progress |-> sp[2]] @@ sp[1] :
        c \in {Absent, JNull, JStr("axial-t2"), JStr("sagittal-t1")},
        d \in {Absent, JStr("2024-09-23")},
        sp \in SettingsAndProgress}

InitSettings ==
    /\ dicom_images = <<>> /\ image_files = {}
    /\ panel_settings = {}
    /\ request = NoRequest /\ response = NoResponse /\ posted = {}
    /\ RunIdle /\ ClassIdle /\ PlanIdle /\ SanIdle /\ RenderIdle /\ ExtractIdle

PostPanelSettings ==
    \E payload \in Payloads :
        LET done == upsert_panel_settings(panel_settings, payload)
        IN /\ request' = [endpoint |-> "upsert_panel_settings", payload |-> payload]
           /\ response' = done.response
           /\ panel_settings' = done.table
           /\ posted' = IF IsText(payload.combo_id) /\ IsText(payload.date_iso)
                        THEN posted \cup {<<payload.combo_id, payload.date_iso>>}
                        ELSE posted
           /\ UNCHANGED <<dicom_images, image_files, exportVars>>

NextSettings == PostPanelSettings

SpecSettings == InitSettings /\ [][NextSettings]_vars

\* One row per pair that was posted, and none for other pairs.
OneRowPerPostedPair ==
    /\ \A pr \in posted :
           Cardinality({r \in panel_settings :
                           <<JStr(r.combo_id), JStr(r.date_iso)>> = pr}) = 1
    /\ \A r \in panel_settings : <<JStr(r.combo_id), JStr(r.date_iso)>> \in posted

\* What the post just handled did to the row of its pair.
PostEffect ==
    request'.endpoint = "upsert_panel_settings" =>
        LET payload == request'.payload
        IN IF payload.combo_id = Absent \/ payload.date_iso = Absent
           THEN /\ response'.status = 400
                /\ panel_settings' = panel_settings
           ELSE (IsText(payload.combo_id) /\ IsText(payload.date_iso)) =>
                \E r \in panel_settings' :
                   /\ JStr(r.combo_id) = payload.combo_id
                   /\ JStr(r.date_iso) = payload.date_iso
                   /\ \A i \in 1..7 :
                          payload[PayloadKeys[i]] = Absent =>
                              r[SettingColumns[i]] = DefaultSettings[SettingColumns[i]]
                   /\ payload.progress \in {Absent, JNull} =>
                          \A o \in panel_settings :
                              (o.combo_id = r.combo_id /\ o.date_iso = r.date_iso)
                                  => r.progress = o.progress

PostContract == PostEffect /\ OneRowPerPostedPair'

\* C26: after any posts, panel_settings holds exactly one row per
\* (combo_id, date_iso) pair that was posted; a post without progress, or with
\* null, keeps the stored progress of its pair; a post without offset, zoom,
\* rotation, brightness, contrast, panX or panY stores the default 0, 1.0, 0.0,
\* 100.0, 100.0, 0.0, 0.0 in its place; a post without combo_id or date_iso
\* is answered 400 and changes nothing.
C26_UpsertContract == [][PostContract]_vars

====
